---- MODULE Spec2Model ----
(***************************************************************************)
(* CertiVault: a certificate vault with a Google-Drive folder mirror.      *)
(*                                                                         *)
(* The repository holds three variants of the one-component application:   *)
(*   "part_000"  the Drive-backed variant (real findOrCreateFolder /       *)
(*               uploadFileToDrive calls, threshold month 3),              *)
(*   "part_001"  a variant whose sync is simulated with timers and a log   *)
(*               (threshold month 6),                                      *)
(*   "index"     src/index.tsx, simulated sync, no unsynced filter.        *)
(* A behaviour runs one variant, chosen in Init.                           *)
(*                                                                         *)
(* An action is one event-loop task: the synchronous code of a handler up  *)
(* to its first await, or the code that runs when an awaited promise or a  *)
(* timer resolves, up to the next await.  A handler is enabled whenever    *)
(* the element carrying it is rendered (the view conditions of the JSX),   *)
(* is not covered by the full-screen busy overlay, and the early returns   *)
(* of the handler let it through.  The overlay stops pointer input only:   *)
(* the Sync button keeps the keyboard focus it got from the click, so      *)
(* Enter or Space activates it again while the overlay is shown.  Spec     *)
(* drives the application with the pointer; SpecReentry adds that second   *)
(* activation for the Drive-backed variant.                                *)
(*                                                                         *)
(* Specifications:                                                         *)
(*   Spec          the sync engine, driven with the pointer                *)
(*   SpecReentry   part_000 with the keyboard activation of the button     *)
(*   SpecPersist   the sync engine together with the persist effect        *)
(*   SpecClassify  getAcademicYear applied to one date string              *)
(*   SpecQuery     one call of findOrCreateFolder against a Drive          *)
(*   SpecVault     profiles, scanning, the editor, persistence, startup    *)
(*   SpecFilter    the search box and the quick filters of the dashboard   *)
(*   SpecFrame     the sync engine next to the detail view and its Delete  *)
(*   SpecLive      Spec with every remote call settling, every timer firing *)
(*   SpecSession   part_000: Google sign-in, userinfo fetches and sign-out *)
(*   SpecIds       creating, saving and deleting records and profiles      *)
(*   SpecShare     index.tsx: selection mode and the PDF export            *)
(***************************************************************************)
EXTENDS Integers, Sequences, FiniteSets, TLC

\* ------------------------------------------------------------------ bounds
MaxCerts == 2        \* records of the vault
MaxProfiles == 2     \* profile ids the profile selector offers
MaxSyncRuns == 2     \* syncToDrive invocations in one behaviour
MaxLogins == 2       \* token requests in one behaviour
MaxQueryLen == 2     \* symbols typed into the search box
MaxFilterTags == 2   \* quick filters switched on at a time
MaxExports == 2      \* PDFs saved in one behaviour

\* ------------------------------------------------------------------ inputs
Variants == {"part_000", "part_001", "index"}
Feb2024 == [kind |-> "valid", year |-> 2024, month |-> 1, y4 |-> 2024]
Aug2024 == [kind |-> "valid", year |-> 2024, month |-> 7, y4 |-> 2024]
\* what a scan yields: the date and the category of the certificate
ScanInputs == { << Feb2024, "Academics" >>, << Aug2024, "Academics" >> }
Outcomes == {"ok", "auth", "fail"}   \* a remote call: 2xx, 401, other error
SdkStates == {"loaded", "missing", "throws"}   \* window.google when a login starts

VARIABLES
  variant,          \* which source file runs
  user,             \* part_001 / index: the mock session (BOOLEAN)
  profiles,         \* Seq of [id, name]
  activeProfileId,  \* 0 is the empty string
  certificates,     \* Seq of [id, profileId, title, image, date, category, synced]
  pendingCert,      \* Seq of length <= 1 (empty = null)
  selectedCert,     \* id of the record of the detail view, 0 = null
  view,             \* "dashboard" | "editor" | "detail"
  isProcessing,     \* the busy flag of processCertificate; part_000: also of syncToDrive
  isSyncing,        \* part_001 / index
  error,            \* the error surface, "" = null
  syncLogs,         \* part_001 / index: Seq of [message, of, status]
  accessToken,      \* part_000: BOOLEAN, FALSE = null
  googleUser,       \* part_000: BOOLEAN, FALSE = null
  tokenRequests,    \* part_000: requestAccessToken calls made so far
  tokenPending,     \* part_000: a token request awaits its callback
  userinfoPending,  \* part_000: userinfo fetches in flight
  clock,            \* Date.now()
  folders,          \* remote store: set of [id, name, parent], parent 0 = My Drive
  files,            \* remote store: Seq of [cert, parent, run]
  syncs,            \* Seq of syncToDrive invocations (their locals)
  customCategories, \* Seq of category names the user added
  localStorage,     \* the item under STORAGE_KEY: << >> = null, else << JSON text >>
  dateStr,          \* getAcademicYear: its argument
  utcOffset,        \* the time zone of the browser, hours east of UTC
  returned,         \* << >> until the call has returned, then << its value >>
  folderName,       \* findOrCreateFolder: name, spelled symbol by symbol
  parentFolder,     \* findOrCreateFolder: parentId, 0 = undefined
  escapes,          \* how Drive reads a backslash inside a quoted string
  request,          \* << >> or << the Drive request findOrCreateFolder awaits >>
  scan,             \* << >> or << the processCertificate invocation under way >>
  searchQuery,      \* part_001 / index: the text of the search box, symbol by symbol
  selectedFilterTags, \* part_001 / index: Seq of the quick filters switched on
  selectedIds,      \* part_001 / index: the Set of record ids ticked for the batch export
  isSelectionMode,  \* part_001 / index: the dashboard ticks records instead of opening them
  exported          \* index: Seq of the PDFs saved so far, each a Seq of record ids

vars == << variant, user, profiles, activeProfileId, certificates, pendingCert,
           selectedCert, view, isProcessing, isSyncing, error,
           syncLogs, accessToken, googleUser, tokenRequests, tokenPending,
           userinfoPending, clock, folders, files, syncs, customCategories,
           localStorage, dateStr, utcOffset, returned, folderName, parentFolder,
           escapes, request, scan, searchQuery, selectedFilterTags, selectedIds,
           isSelectionMode, exported >>

uiVars == << user, profiles, activeProfileId, pendingCert, selectedCert, view >>
authVars == << accessToken, googleUser, tokenRequests, tokenPending, userinfoPending >>
remoteVars == << folders, files >>
syncVars == << isProcessing, isSyncing, syncLogs, syncs >>
storeVars == << customCategories, localStorage >>
callVars == << dateStr, utcOffset, returned, folderName, parentFolder, escapes, request >>
dashVars == << searchQuery, selectedFilterTags, selectedIds, isSelectionMode, exported >>

\* ------------------------------------------------------------- pure helpers
threshold(v) == IF v = "part_001" THEN 6 ELSE 3

label(y) == ToString(y) \o "-" \o ToString(y + 1)

getAcademicYear(v, d) ==
  IF d.kind = "empty" THEN "Unknown Year"
  ELSE IF d.kind = "invalid"
    THEN IF v = "part_000" THEN "Unknown Year"
         ELSE IF v = "part_001" THEN "NaN-NaN"
         ELSE IF d.y4 # 0 THEN label(d.y4) ELSE "Unknown Year"
  ELSE IF d.month >= threshold(v) THEN label(d.year) ELSE label(d.year - 1)

\* The strings getAcademicYear is called with, by what the Date constructor
\* makes of them:
\*   "empty"     ""
\*   "text"      no date ("n/a", or "2024-13-45" whose first run of four
\*               digits is y4; y4 = 0 when there is none)
\*   "date"      the date-only form "YYYY-MM-DD", read as midnight UTC
\*   "datetime"  the form "YYYY-MM-DDTHH:mm" at noon, read as local time
Years == {2023, 2024}
Days == {1, 10}
Offsets == {-5, 0, 5}
DateStrings ==
  { [kind |-> "empty"] }
    \cup { [kind |-> "text", y4 |-> y] : y \in {0, 2024} }
    \cup [kind : {"date", "datetime"}, year : Years, month : 1..12, day : Days]

\* new Date(s) as getFullYear() and getMonth() show it in a browser whose
\* clock is off hours east of UTC: a date-only string is midnight UTC, which
\* west of Greenwich is still the evening of the day before
NewDate(s, off) ==
  IF s.kind = "empty" THEN [kind |-> "empty"]
  ELSE IF s.kind = "text" THEN [kind |-> "invalid", y4 |-> s.y4]
  ELSE IF s.kind = "date" /\ off < 0 /\ s.day = 1
    THEN IF s.month = 1
         THEN [kind |-> "valid", year |-> s.year - 1, month |-> 11, y4 |-> s.year]
         ELSE [kind |-> "valid", year |-> s.year, month |-> s.month - 2, y4 |-> s.year]
  ELSE [kind |-> "valid", year |-> s.year, month |-> s.month - 1, y4 |-> s.year]

RECURSIVE SelectSeq2(_, _)
\* Array.prototype.filter with a predicate given as a set of admitted elements
SelectSeq2(s, keep) ==
  IF s = << >> THEN << >>
  ELSE IF Head(s) \in keep THEN << Head(s) >> \o SelectSeq2(Tail(s), keep)
  ELSE SelectSeq2(Tail(s), keep)

Range(s) == { s[i] : i \in 1..Len(s) }

RECURSIVE Uniq(_)
\* Array.from(new Set(s)): first occurrences, in order
Uniq(s) ==
  IF s = << >> THEN << >>
  ELSE << Head(s) >> \o Uniq(SelectSeq2(Tail(s), Range(Tail(s)) \ {Head(s)}))

MapSynced(certs, id) ==
  [ i \in 1..Len(certs) |->
      IF certs[i].id = id THEN [certs[i] EXCEPT !.synced = TRUE] ELSE certs[i] ]

FindProfile(ps, id) ==
  LET hits == SelectSeq(ps, LAMBDA p : p.id = id)
  IN IF hits = << >> THEN << >> ELSE << Head(hits) >>

\* ------------------------------------------------------------ persistence
\* JSON.stringify of an object: its members, in the order of its keys
Members(keys, val) == [ i \in 1..Len(keys) |-> << keys[i], val[keys[i]] >> ]

\* JSON.stringify({ profiles, certificates, activeProfileId, customCategories })
JSONstringify(b) ==
  << << "profiles",
        [ i \in 1..Len(b.profiles) |-> Members(<< "id", "name" >>, b.profiles[i]) ] >>,
     << "certificates",
        [ i \in 1..Len(b.certificates) |->
            Members(<< "id", "image", "profileId", "title", "date", "category", "synced" >>,
                    b.certificates[i]) ] >>,
     << "activeProfileId", b.activeProfileId >>,
     << "customCategories", b.customCategories >> >>

\* data.key of a parsed object
Get(obj, key) == (CHOOSE m \in Range(obj) : m[1] = key)[2]

\* JSON.parse(saved)
JSONparse(text) ==
  LET ps == Get(text, "profiles")
      cs == Get(text, "certificates")
  IN [profiles |-> [ i \in 1..Len(ps) |->
                       [id |-> Get(ps[i], "id"), name |-> Get(ps[i], "name")] ],
      certificates |-> [ i \in 1..Len(cs) |->
                       [id |-> Get(cs[i], "id"), image |-> Get(cs[i], "image"),
                        profileId |-> Get(cs[i], "profileId"), title |-> Get(cs[i], "title"),
                        date |-> Get(cs[i], "date"), category |-> Get(cs[i], "category"),
                        synced |-> Get(cs[i], "synced")] ],
      activeProfileId |-> Get(text, "activeProfileId"),
      customCategories |-> Get(text, "customCategories")]

\* the four pieces of state the persist effect depends on
Blob ==
  [profiles |-> profiles, certificates |-> certificates,
   activeProfileId |-> activeProfileId, customCategories |-> customCategories]

\* ---------------------------------------------------------------- Init
\* profiles a saved vault can hold: part_000 and part_001 create them by
\* name, index.tsx only ever has the default profile of its load effect
SavedProfiles(v) ==
  IF v = "index" THEN { << [id |-> 1, name |-> "Subhavya"] >> }
  ELSE { << >>,
         << [id |-> 1, name |-> "Asha"] >>,
         << [id |-> 1, name |-> "Asha"], [id |-> 2, name |-> "CertiVault"] >> }

\* records a saved vault can hold: newest first (every save prepends), ids
\* from the clock, each owned by one of the profiles, none synced yet
SavedCertificates(ps) ==
  IF ps = << >> THEN { << >> }
  ELSE UNION { { [ i \in 1..k |->
                     [id |-> Len(ps) + k + 1 - i, profileId |-> f[i][2],
                      title |-> "Merit Award", image |-> "cleaned",
                      date |-> f[i][1][1], category |-> f[i][1][2], synced |-> FALSE] ]
                 : f \in [1..k -> ScanInputs \X { p.id : p \in Range(ps) }] }
               : k \in 0..MaxCerts }

\* The state after the load effect has restored a saved vault that was never
\* synced (a fresh install is the empty vault) and the persist effect has
\* written it back.  The active profile is the one created last (creating a
\* profile selects it; selectProfile reaches every other).  The mock session
\* of part_001 / index.tsx is restored from localStorage; part_000 is signed
\* in to Google or not.
Init ==
  /\ variant \in Variants
  /\ user = (variant # "part_000")
  /\ profiles \in SavedProfiles(variant)
  /\ activeProfileId = IF profiles = << >> THEN 0 ELSE profiles[Len(profiles)].id
  /\ certificates \in SavedCertificates(profiles)
  /\ clock = Len(profiles) + Len(certificates)
  /\ pendingCert = << >>
  /\ selectedCert = 0
  /\ view = "dashboard"
  /\ isProcessing = FALSE
  /\ isSyncing = FALSE
  /\ error = ""
  /\ syncLogs = << >>
  /\ accessToken \in IF variant = "part_000" THEN BOOLEAN ELSE {FALSE}
  /\ googleUser = accessToken
  /\ tokenRequests = 0
  /\ tokenPending = 0
  /\ userinfoPending = 0
  /\ folders = {}
  /\ files = << >>
  /\ syncs = << >>
  /\ customCategories = << >>
  /\ localStorage = << JSONstringify(Blob) >>
  /\ dateStr = [kind |-> "empty"]
  /\ utcOffset = 0
  /\ returned = << >>
  /\ folderName = << >>
  /\ parentFolder = 0
  /\ escapes = "pairs"
  /\ request = << >>
  /\ scan = << >>
  /\ searchQuery = << >>
  /\ selectedFilterTags = << >>
  /\ selectedIds = {}
  /\ isSelectionMode = FALSE
  /\ exported = << >>

\* the persist effect: it runs after a render in which profiles, certificates,
\* activeProfileId or customCategories changed (index.tsx: or user), and
\* index.tsx writes for a signed-in user only
PersistEffect ==
  /\ variant = "index" => user
  /\ localStorage # << JSONstringify(Blob) >>
  /\ localStorage' = << JSONstringify(Blob) >>
  /\ UNCHANGED << variant, certificates, clock, error, customCategories >>
  /\ UNCHANGED << uiVars, authVars, remoteVars, syncVars, callVars, dashVars, scan >>

\* part_000: {isProcessing && <div className="fixed inset-0 z-[200] ...">}
Overlay000 == isProcessing

\* index.tsx: {(isProcessing || isSyncing) && <div className="fixed inset-0 z-[200] ...">}
OverlayIndex == isProcessing \/ isSyncing

\* part_001: its final render is not part of the source at hand; the spec asks
\* for a sync-in-progress flag that keeps a second invocation out, and the
\* sibling index.tsx shows the progress of a scan and the log of a running
\* sync in such an overlay
Overlay001 == isProcessing \/ isSyncing

\* the full-screen overlay that covers every view while the app is busy
Overlay ==
  CASE variant = "part_000" -> Overlay000
    [] variant = "index" -> OverlayIndex
    [] OTHER -> Overlay001

\* An element of view v can be clicked.  The views of part_001 and index.tsx
\* are rendered for a signed-in mock user only; part_000 has no such gate.
Rendered(v) == view = v /\ (variant = "part_000" \/ user) /\ ~Overlay

\* ------------------------------------------------------- session / profiles
handleLogin ==
  /\ variant # "part_000"
  /\ ~user
  /\ user' = TRUE
  /\ UNCHANGED << variant, profiles, activeProfileId, certificates, pendingCert,
                  selectedCert, view, error, clock >>
  /\ UNCHANGED << authVars, remoteVars, syncVars >>
  /\ UNCHANGED << storeVars, callVars, dashVars, scan >>

\* (mutant of handleCreateProfile) the new profile is not made the active one
handleCreateProfileKeeps(name) ==
  /\ variant # "index"
  /\ Rendered("dashboard")
  /\ Len(profiles) < MaxProfiles
  /\ clock' = clock + 1
  /\ profiles' = Append(profiles, [id |-> clock + 1, name |-> name])
  /\ UNCHANGED << variant, user, activeProfileId, certificates, pendingCert, selectedCert,
                  view, error >>
  /\ UNCHANGED << authVars, remoteVars, syncVars >>
  /\ UNCHANGED << storeVars, callVars, dashVars, scan >>

\* part_001 handleCreateProfile, part_000 the Create button of the profile dialog
handleCreateProfile(name) ==
  /\ variant # "index"
  /\ Rendered("dashboard")
  /\ Len(profiles) < MaxProfiles
  /\ clock' = clock + 1
  /\ profiles' = Append(profiles, [id |-> clock + 1, name |-> name])
  /\ activeProfileId' = clock + 1
  /\ UNCHANGED << variant, user, certificates, pendingCert, selectedCert, view, error >>
  /\ UNCHANGED << authVars, remoteVars, syncVars >>
  /\ UNCHANGED << storeVars, callVars, dashVars, scan >>

\* the profile selector; the one of part_001 also leaves selection mode and
\* clears the search box and the quick filters
selectProfile(id) ==
  /\ Rendered("dashboard")
  /\ id \in { p.id : p \in Range(profiles) }
  /\ activeProfileId' = id
  /\ IF variant = "part_001"
       THEN /\ isSelectionMode' = FALSE
            /\ selectedIds' = {}
            /\ searchQuery' = << >>
            /\ selectedFilterTags' = << >>
       ELSE UNCHANGED << isSelectionMode, selectedIds, searchQuery, selectedFilterTags >>
  /\ UNCHANGED << variant, user, profiles, certificates, pendingCert, selectedCert,
                  view, error, clock, exported >>
  /\ UNCHANGED << authVars, remoteVars, syncVars >>
  /\ UNCHANGED << storeVars, callVars, scan >>

\* ------------------------------------------------------------ record store
\* startCamera (setError(null)), capturePhoto and processCertificate: the
\* extraction result, as edited in the editor, becomes the pending record;
\* the id is Date.now().
processCertificate(date, category) ==
  /\ Rendered("dashboard")
  /\ Len(certificates) < MaxCerts
  /\ clock' = clock + 1
  /\ pendingCert' = << [id |-> clock + 1, profileId |-> activeProfileId,
                        title |-> "Merit Award", image |-> "cleaned",
                        date |-> date, category |-> category, synced |-> FALSE] >>
  /\ view' = "editor"
  /\ error' = ""
  /\ UNCHANGED << variant, user, profiles, activeProfileId, certificates,
                  selectedCert >>
  /\ UNCHANGED << authVars, remoteVars, syncVars >>
  /\ UNCHANGED << storeVars, callVars, dashVars, scan >>

\* (mutant of VaultButton) the button saves and stays in the editor
VaultButtonStays ==
  /\ variant = "part_000"
  /\ Rendered("editor")
  /\ pendingCert # << >>
  /\ pendingCert[1].title # ""
  /\ certificates' = << [pendingCert[1] EXCEPT !.synced = FALSE] >> \o certificates
  /\ UNCHANGED << variant, user, profiles, activeProfileId, pendingCert,
                  selectedCert, view, error, clock >>
  /\ UNCHANGED << authVars, remoteVars, syncVars >>
  /\ UNCHANGED << storeVars, callVars, dashVars, scan >>

\* part_000: the Vault button prepends the pending record with synced: false
\* and leaves pendingCert in place.
VaultButton ==
  /\ variant = "part_000"
  /\ Rendered("editor")
  /\ pendingCert # << >>
  /\ pendingCert[1].title # ""
  /\ certificates' = << [pendingCert[1] EXCEPT !.synced = FALSE] >> \o certificates
  /\ view' = "dashboard"
  /\ UNCHANGED << variant, user, profiles, activeProfileId, pendingCert,
                  selectedCert, error, clock >>
  /\ UNCHANGED << authVars, remoteVars, syncVars >>
  /\ UNCHANGED << storeVars, callVars, dashVars, scan >>

\* part_001: saveCertificate; editorNewProfileName is the name typed in the
\* editor's new-profile field ("" when left empty).
saveCertificate(editorNewProfileName) ==
  /\ variant = "part_001"
  /\ Rendered("editor")
  /\ pendingCert # << >>
  /\ LET known == IF pendingCert[1].profileId # 0
                  THEN pendingCert[1].profileId ELSE activeProfileId
         creates == known = 0 /\ editorNewProfileName # ""
         finalProfileId == IF creates THEN clock + 1 ELSE known
     IN /\ creates => Len(profiles) < MaxProfiles
        /\ IF creates
           THEN /\ profiles' = Append(profiles, [id |-> clock + 1,
                                                 name |-> editorNewProfileName])
                /\ activeProfileId' = clock + 1
                /\ clock' = clock + 1
           ELSE UNCHANGED << profiles, activeProfileId, clock >>
        /\ IF finalProfileId = 0
           THEN /\ error' = "Please select or create a profile first."
                /\ UNCHANGED << certificates, pendingCert, view >>
           ELSE /\ certificates' =
                     << [pendingCert[1] EXCEPT !.profileId = finalProfileId] >>
                       \o certificates
                /\ pendingCert' = << >>
                /\ view' = "dashboard"
                /\ UNCHANGED error
  /\ UNCHANGED << variant, user, selectedCert >>
  /\ UNCHANGED << authVars, remoteVars, syncVars >>
  /\ UNCHANGED << storeVars, callVars, dashVars, scan >>

\* index.tsx: the save button stamps the active profile on the record.
SaveButton ==
  /\ variant = "index"
  /\ Rendered("editor")
  /\ pendingCert # << >>
  /\ certificates' =
       << [pendingCert[1] EXCEPT !.profileId = activeProfileId] >> \o certificates
  /\ pendingCert' = << >>
  /\ view' = "dashboard"
  /\ UNCHANGED << variant, user, profiles, activeProfileId, selectedCert, error, clock >>
  /\ UNCHANGED << authVars, remoteVars, syncVars >>
  /\ UNCHANGED << storeVars, callVars, dashVars, scan >>

\* the editor's back button
BackButton ==
  /\ Rendered("editor")
  /\ view' = "dashboard"
  /\ UNCHANGED << variant, user, profiles, activeProfileId, certificates, pendingCert,
                  selectedCert, error, clock >>
  /\ UNCHANGED << authVars, remoteVars, syncVars >>
  /\ UNCHANGED << storeVars, callVars, dashVars, scan >>

\* ------------------------------------------------------- Google sign-in
\* handleGoogleLogin: builds a token client and requests a token; without
\* the Google SDK on the page, or when the client cannot be built, it
\* reports that instead.
handleGoogleLogin(sdk) ==
  CASE sdk = "missing" ->
         /\ error' = "Google SDK not loaded. Please check your internet connection."
         /\ UNCHANGED authVars
    [] sdk = "throws" ->
         /\ error' = "Initialization Error. Ensure your Client ID and Domain are correctly configured."
         /\ UNCHANGED authVars
    [] OTHER ->
         /\ tokenRequests < MaxLogins
         /\ tokenRequests' = tokenRequests + 1
         /\ tokenPending' = tokenPending + 1
         /\ UNCHANGED << error, accessToken, googleUser, userinfoPending >>

SignInButton ==
  /\ variant = "part_000"
  /\ Rendered("dashboard")
  /\ ~googleUser
  /\ \E sdk \in SdkStates : handleGoogleLogin(sdk)
  /\ UNCHANGED << variant, user, profiles, activeProfileId, certificates, pendingCert,
                  selectedCert, view, clock >>
  /\ UNCHANGED << remoteVars, syncVars >>
  /\ UNCHANGED << storeVars, callVars, dashVars, scan >>

\* the token client's callback
TokenCallback(resp) ==
  /\ variant = "part_000"
  /\ tokenPending > 0
  /\ tokenPending' = tokenPending - 1
  /\ CASE resp = "error" ->
            /\ error' = "Authentication Error"
            /\ UNCHANGED << accessToken, userinfoPending >>
       [] resp = "token" ->
            /\ accessToken' = TRUE
            /\ userinfoPending' = userinfoPending + 1
            /\ UNCHANGED error
       [] OTHER -> UNCHANGED << accessToken, userinfoPending, error >>
  /\ UNCHANGED << variant, user, profiles, activeProfileId, certificates, pendingCert,
                  selectedCert, view, clock, googleUser, tokenRequests >>
  /\ UNCHANGED << remoteVars, syncVars >>
  /\ UNCHANGED << storeVars, callVars, dashVars, scan >>

\* the userinfo fetch settles
UserInfoResponse(ok) ==
  /\ variant = "part_000"
  /\ userinfoPending > 0
  /\ userinfoPending' = userinfoPending - 1
  /\ IF ok THEN googleUser' = TRUE /\ error' = ""
           ELSE error' = "Failed to retrieve user profile." /\ UNCHANGED googleUser
  /\ UNCHANGED << variant, user, profiles, activeProfileId, certificates, pendingCert,
                  selectedCert, view, clock, accessToken, tokenRequests, tokenPending >>
  /\ UNCHANGED << remoteVars, syncVars >>
  /\ UNCHANGED << storeVars, callVars, dashVars, scan >>

SignOutButton ==
  /\ variant = "part_000"
  /\ Rendered("dashboard")
  /\ googleUser
  /\ googleUser' = FALSE
  /\ accessToken' = FALSE
  /\ UNCHANGED << variant, user, profiles, activeProfileId, certificates, pendingCert,
                  selectedCert, view, error, clock, tokenRequests, tokenPending,
                  userinfoPending >>
  /\ UNCHANGED << remoteVars, syncVars >>
  /\ UNCHANGED << storeVars, callVars, dashVars, scan >>

\* --------------------------------------------------------- sync: planning
\* (mutant of WorkSet) the filter forgets the synced flag in every variant
WorkSetAll(v, certs, apid) == SelectSeq(certs, LAMBDA c : c.profileId = apid)

\* profileCerts: the records one invocation works on.  index.tsx filters by
\* profile only; the other two also drop the records already synced.
WorkSet(v, certs, apid) ==
  SelectSeq(certs, LAMBDA c : c.profileId = apid /\ (v = "index" \/ ~c.synced))

ItemStep(v, c) ==
  [kind |-> "item", year |-> getAcademicYear(v, c.date), cat |-> c.category, id |-> c.id]

\* part_000: for (const cert of profileCerts), folders resolved per record
PlanPerRecord(v, ws) == [ i \in 1..Len(ws) |-> ItemStep(v, ws[i]) ]

RECURSIVE PlanCats(_, _, _, _)
PlanCats(v, cats, yearCerts, year) ==
  IF cats = << >> THEN << >>
  ELSE LET cat == Head(cats)
           items == SelectSeq(yearCerts, LAMBDA c : c.category = cat)
       IN << [kind |-> "cat", year |-> year, cat |-> cat, id |-> 0] >>
            \o [ i \in 1..Len(items) |-> ItemStep(v, items[i]) ]
            \o PlanCats(v, Tail(cats), yearCerts, year)

RECURSIVE PlanYears(_, _, _)
PlanYears(v, years, ws) ==
  IF years = << >> THEN << >>
  ELSE LET year == Head(years)
           yearCerts == SelectSeq(ws, LAMBDA c : getAcademicYear(v, c.date) = year)
           cats == Uniq([ i \in 1..Len(yearCerts) |-> yearCerts[i].category ])
       IN << [kind |-> "year", year |-> year, cat |-> "", id |-> 0] >>
            \o PlanCats(v, cats, yearCerts, year)
            \o PlanYears(v, Tail(years), ws)

\* part_001 / index: for year of years, for cat of categories, for item
PlanGrouped(v, ws) ==
  PlanYears(v, Uniq([ i \in 1..Len(ws) |-> getAcademicYear(v, ws[i].date) ]), ws)

Plan(v, ws) == IF v = "part_000" THEN PlanPerRecord(v, ws) ELSE PlanGrouped(v, ws)

Ids(ws) == [ i \in 1..Len(ws) |-> ws[i].id ]

\* The locals of a syncToDrive invocation that has passed its early returns.
\* certs and apid are the values its closure captured, work the ids of its
\* profileCerts, marked the ids it has marked synced.  calls lists the
\* findOrCreateFolder / uploadFile calls it has issued; result, cause, after
\* and endCerts record how it ended, how the
\* invocation before it ended when nothing changed in between, and the store
\* at its end.
BlankSync ==
  [pc |-> "done", profile |-> [id |-> 0, name |-> ""], certs |-> << >>, apid |-> 0,
   plan |-> << >>, cur |-> 0, rootId |-> 0, profileId |-> 0, yearId |-> 0, catId |-> 0,
   fname |-> "", fparent |-> 0, ftarget |-> "", work |-> << >>, marked |-> << >>,
   calls |-> << >>,
   result |-> "running",
   cause |-> "", after |-> "none", endCerts |-> << >>]

NewSync(prof) ==
  LET n == Len(syncs)
      repeat == /\ n > 0
                /\ syncs[n].pc = "done"
                /\ syncs[n].endCerts = certificates
                /\ syncs[n].profile = prof
  IN [BlankSync EXCEPT !.pc = "start", !.profile = prof, !.certs = certificates,
                       !.apid = activeProfileId,
                       !.after = IF repeat THEN syncs[n].result ELSE "none"]

\* only the latest invocation keeps its locals once it has ended
Archive(inv) == IF inv.pc = "done" THEN [BlankSync EXCEPT !.result = inv.result] ELSE inv

Launch(inv) == Append([ i \in 1..Len(syncs) |-> Archive(syncs[i]) ], inv)

Finish(inv, result, cause) ==
  [inv EXCEPT !.pc = "done", !.result = result, !.cause = cause, !.endCerts = certificates]

Running(i) == syncs[i].pc # "done"

\* ------------------------------------------------ sync: part_000 (Drive)
\* findOrCreateFolder(name, parentId) is entered: its list request goes out
findOrCreateFolder(inv, name, parentId, target) ==
  [inv EXCEPT !.pc = "find_list", !.fname = name, !.fparent = parentId,
              !.ftarget = target,
              !.calls = Append(@, [op |-> "findOrCreateFolder", name |-> name,
                                   parent |-> parentId, cert |-> inv.cur])]

\* (mutant of LoopTop) the year folder is looked up under the root folder
LoopTopUnderRoot(inv) ==
  LET step == Head(inv.plan)
  IN findOrCreateFolder([inv EXCEPT !.cur = step.id], step.year, inv.rootId, "year")

\* the top of the for loop for the record at the head of the plan
LoopTop(inv) ==
  LET step == Head(inv.plan)
  IN findOrCreateFolder([inv EXCEPT !.cur = step.id], step.year, inv.profileId, "year")

\* the code after a findOrCreateFolder call returned id, up to the next await
AfterFolder(inv, id) ==
  CASE inv.ftarget = "root" ->
         findOrCreateFolder([inv EXCEPT !.rootId = id], inv.profile.name, id, "profile")
    [] inv.ftarget = "profile" ->
         LET ws == WorkSet("part_000", inv.certs, inv.apid)
             plan == Plan("part_000", ws)
             got == [inv EXCEPT !.profileId = id, !.plan = plan, !.work = Ids(ws)]
         IN IF plan = << >> THEN [got EXCEPT !.pc = "empty_wait"] ELSE LoopTop(got)
    [] inv.ftarget = "year" ->
         findOrCreateFolder([inv EXCEPT !.yearId = id], Head(inv.plan).cat, id, "cat")
    [] OTHER -> [inv EXCEPT !.catId = id, !.pc = "render"]

\* part_000: the text of the busy overlay, as the latest invocation set it
processStatus ==
  IF syncs = << >> THEN ""
  ELSE LET inv == syncs[Len(syncs)]
       IN IF inv.pc = "empty_wait" \/ inv.result = "empty" THEN "Vault already in sync!"
          ELSE IF inv.pc = "done_wait" \/ inv.result = "ok" THEN "Sync Successful!"
          ELSE IF inv.cur # 0 THEN "Vaulting: " \o ToString(inv.cur) \o "..."
          ELSE "Mirroring Vault to Cloud..."

\* (mutant of Caught) a try/catch inside the for loop: the failure of a
\* record is reported and the loop goes on with the next record
CaughtContinue(i, cause, message) ==
  LET inv == syncs[i]
      rest == [inv EXCEPT !.plan = Tail(@), !.cause = cause]
  IN /\ error' = "Sync failed: " \o message
     /\ IF inv.cur = 0
        THEN /\ isProcessing' = FALSE
             /\ syncs' = [syncs EXCEPT ![i] = Finish(@, "failed", cause)]
        ELSE /\ syncs' = [syncs EXCEPT ![i] =
                            IF rest.plan = << >> THEN [rest EXCEPT !.pc = "done_wait"]
                            ELSE LoopTop(rest)]
             /\ UNCHANGED isProcessing
     /\ UNCHANGED << isSyncing, syncLogs >>

\* (mutant of Caught) the catch block swallows the error
CaughtSilent(i, cause, message) ==
  /\ isProcessing' = FALSE
  /\ syncs' = [syncs EXCEPT ![i] = Finish(@, "failed", cause)]
  /\ UNCHANGED << error, isSyncing, syncLogs >>

\* (mutant of Caught) a catch block without the finally block
CaughtNoFinally(i, cause, message) ==
  /\ error' = "Sync failed: " \o message
  /\ syncs' = [syncs EXCEPT ![i] = Finish(@, "failed", cause)]
  /\ UNCHANGED << isProcessing, isSyncing, syncLogs >>

\* catch (err) { setError(...) } finally { setIsProcessing(false) }
Caught(i, cause, message) ==
  /\ error' = "Sync failed: " \o message
  /\ isProcessing' = FALSE
  /\ syncs' = [syncs EXCEPT ![i] = Finish(@, "failed", cause)]
  /\ UNCHANGED << isSyncing, syncLogs >>

ErrorMessage(out) == IF out = "auth" THEN "Invalid Credentials" ELSE "Drive API failed"

\* (mutant of syncToDrive000Body) the two early returns are missing
syncToDrive000Unchecked ==
  /\ variant = "part_000"
  /\ LET found == FindProfile(profiles, activeProfileId)
         prof == IF found = << >> THEN [id |-> 0, name |-> ""] ELSE found[1]
     IN /\ Len(syncs) < MaxSyncRuns
        /\ isProcessing' = TRUE
        /\ syncs' = Launch(findOrCreateFolder(NewSync(prof), "CertiVault", 0, "root"))
        /\ UNCHANGED << error, authVars, isSyncing, syncLogs >>
  /\ UNCHANGED << variant, user, profiles, activeProfileId, certificates, pendingCert,
                  selectedCert, view, clock >>
  /\ UNCHANGED remoteVars
  /\ UNCHANGED << storeVars, callVars, dashVars, scan >>

\* syncToDrive, part_000: the three ways through its first lines
syncToDrive000Body ==
  /\ variant = "part_000"
  /\ LET found == FindProfile(profiles, activeProfileId)
     IN \/ /\ ~accessToken
           /\ \E sdk \in SdkStates : handleGoogleLogin(sdk)
           /\ UNCHANGED syncVars
        \/ /\ accessToken
           /\ found = << >>
           /\ error' = "No active profile selected."
           /\ UNCHANGED << authVars, syncVars >>
        \/ /\ accessToken
           /\ found # << >>
           /\ Len(syncs) < MaxSyncRuns
           /\ isProcessing' = TRUE
           /\ syncs' = Launch(findOrCreateFolder(NewSync(found[1]), "CertiVault", 0, "root"))
           /\ UNCHANGED << error, authVars, isSyncing, syncLogs >>
  /\ UNCHANGED << variant, user, profiles, activeProfileId, certificates, pendingCert,
                  selectedCert, view, clock >>
  /\ UNCHANGED remoteVars
  /\ UNCHANGED << storeVars, callVars, dashVars, scan >>

\* part_000: <button onClick={syncToDrive}> of the dashboard, clicked
syncToDrive000 == Rendered("dashboard") /\ syncToDrive000Body

\* part_000: the same button, still focused after the click that started a
\* sync, activated from the keyboard under the overlay
syncToDrive000Key == view = "dashboard" /\ Overlay000 /\ syncToDrive000Body

\* the folders a list request of findOrCreateFolder returns
ListMatches(name, parentId) ==
  { f \in folders : f.name = name /\ (parentId = 0 \/ f.parent = parentId) }

\* driveApi('files?q=...') settles
ListResolves(i, out) ==
  /\ i \in 1..Len(syncs)
  /\ syncs[i].pc = "find_list"
  /\ LET inv == syncs[i]
         hits == ListMatches(inv.fname, inv.fparent)
     IN IF out # "ok" THEN Caught(i, out, ErrorMessage(out))
        ELSE IF hits = {}
        THEN /\ syncs' = [syncs EXCEPT ![i].pc = "find_create"]
             /\ UNCHANGED << error, isProcessing, isSyncing, syncLogs >>
        ELSE \E f \in hits :
               LET new == AfterFolder(inv, f.id)
               IN /\ syncs' = [syncs EXCEPT ![i] = new]
                  /\ UNCHANGED << error, isProcessing, isSyncing, syncLogs >>
  /\ UNCHANGED << variant, certificates, clock >>
  /\ UNCHANGED << uiVars, authVars, remoteVars >>
  /\ UNCHANGED << storeVars, callVars, dashVars, scan >>

\* driveApi('files', POST) settles
CreateResolves(i, out) ==
  /\ i \in 1..Len(syncs)
  /\ syncs[i].pc = "find_create"
  /\ LET inv == syncs[i]
         id == Cardinality(folders) + 1
     IN IF out # "ok"
        THEN Caught(i, out, ErrorMessage(out)) /\ UNCHANGED folders
        ELSE LET new == AfterFolder(inv, id)
             IN /\ folders' = folders \cup
                     {[id |-> id, name |-> inv.fname, parent |-> inv.fparent]}
                /\ syncs' = [syncs EXCEPT ![i] = new]
                /\ UNCHANGED << error, isProcessing, isSyncing, syncLogs >>
  /\ UNCHANGED << variant, certificates, clock, files >>
  /\ UNCHANGED << uiVars, authVars >>
  /\ UNCHANGED << storeVars, callVars, dashVars, scan >>

\* generatePDFBlob([cert]) settles; on success uploadFileToDrive sends its request
RenderResolves(i, ok) ==
  /\ i \in 1..Len(syncs)
  /\ syncs[i].pc = "render"
  /\ IF ok
     THEN /\ syncs' = [syncs EXCEPT ![i].pc = "upload",
                         ![i].calls = Append(@, [op |-> "uploadFile", name |-> "",
                                    parent |-> syncs[i].catId, cert |-> syncs[i].cur])]
          /\ UNCHANGED << error, isProcessing, isSyncing, syncLogs >>
     ELSE Caught(i, "render", "render")
  /\ UNCHANGED << variant, certificates, clock >>
  /\ UNCHANGED << uiVars, authVars, remoteVars >>
  /\ UNCHANGED << storeVars, callVars, dashVars, scan >>

\* (mutant of MarkSynced) the map rebuilds the flag of every record
MarkOnlySynced(certs, id) ==
  [ i \in 1..Len(certs) |-> [certs[i] EXCEPT !.synced = (certs[i].id = id)] ]

\* (mutant of MarkSynced) the map sets the flag of every record of the store
MarkEverySynced(certs, id) ==
  [ i \in 1..Len(certs) |-> [certs[i] EXCEPT !.synced = TRUE] ]

\* setCertificates(prev => prev.map(c => c.id === cert.id ? {...c, synced: true} : c))
MarkSynced(certs, id) == MapSynced(certs, id)

\* the upload request settles
UploadResolves(i, out) ==
  /\ i \in 1..Len(syncs)
  /\ syncs[i].pc = "upload"
  /\ LET inv == syncs[i]
         rest == [inv EXCEPT !.plan = Tail(@), !.marked = Append(@, inv.cur)]
         new == IF rest.plan = << >> THEN [rest EXCEPT !.pc = "done_wait"]
                ELSE LoopTop(rest)
     IN IF out # "ok"
        THEN Caught(i, out, "Upload failed") /\ UNCHANGED << files, certificates >>
        ELSE /\ files' = Append(files, [cert |-> inv.cur, parent |-> inv.catId, run |-> i])
             /\ certificates' = MarkSynced(certificates, inv.cur)
             /\ syncs' = [syncs EXCEPT ![i] = new]
             /\ UNCHANGED << error, isProcessing, isSyncing, syncLogs >>
  /\ UNCHANGED << variant, clock, folders >>
  /\ UNCHANGED << uiVars, authVars >>
  /\ UNCHANGED << storeVars, callVars, dashVars, scan >>

\* the closing setTimeout of part_000 fires; finally { setIsProcessing(false) }
FinalTimer000(i) ==
  /\ i \in 1..Len(syncs)
  /\ variant = "part_000"
  /\ syncs[i].pc \in {"empty_wait", "done_wait"}
  /\ syncs' = [syncs EXCEPT ![i] =
                 Finish(@, IF @.pc = "empty_wait" THEN "empty" ELSE "ok", "")]
  /\ isProcessing' = FALSE
  /\ UNCHANGED << variant, certificates, clock, error, isSyncing, syncLogs >>
  /\ UNCHANGED << uiVars, authVars, remoteVars >>
  /\ UNCHANGED << storeVars, callVars, dashVars, scan >>

\* --------------------------------------- sync: part_001 / index (simulated)
\* (mutant of addLog) the new entry is put in front of the log
addLogFirst(logs, message, of, status) ==
  << [message |-> message, of |-> of, status |-> status] >> \o logs

\* addLog(message, status); of is the interpolated part of the message
addLog(logs, message, of, status) ==
  Append(logs, [message |-> message, of |-> of, status |-> status])

StepRef(step) ==
  CASE step.kind = "year" -> step.year
    [] step.kind = "cat" -> step.cat
    [] OTHER -> ToString(step.id)

\* part_001: the log line written before the timer of a step
Announce001(logs, step) ==
  addLog(logs, CASE step.kind = "year" -> "Verifying Folder Structure"
                 [] step.kind = "cat" -> "Verifying Subfolder"
                 [] OTHER -> "Uploading", StepRef(step), "pending")

\* part_001: the log line written after the timer of a step
Settle001(logs, step) ==
  addLog(logs, CASE step.kind = "year" -> "Created Folder"
                 [] step.kind = "cat" -> "Created Subfolder"
                 [] OTHER -> "Success", StepRef(step), "success")

\* syncToDrive, part_001: up to the first timer.  The dashboard shows the
\* Sync button only once a profile exists (profiles.length === 0 ? ... : ...).
syncToDrive001 ==
  /\ variant = "part_001"
  /\ Rendered("dashboard")
  /\ profiles # << >>
  /\ LET found == FindProfile(profiles, activeProfileId)
     IN \/ /\ found = << >>
           /\ UNCHANGED syncVars
        \/ /\ found # << >>
           /\ Len(syncs) < MaxSyncRuns
           /\ isSyncing' = TRUE
           /\ syncLogs' = addLog(<< >>, "Initializing Google Drive Sync for Profile",
                                 found[1].name, "info")
           /\ syncs' = Launch([NewSync(found[1]) EXCEPT !.pc = "wait1"])
           /\ UNCHANGED isProcessing
  /\ UNCHANGED << variant, certificates, clock, error >>
  /\ UNCHANGED << uiVars, authVars, remoteVars >>
  /\ UNCHANGED << storeVars, callVars, dashVars, scan >>

\* part_001: a timer of syncToDrive fires and the code runs to the next one
Timer001(i) ==
  /\ variant = "part_001"
  /\ i \in 1..Len(syncs)
  /\ Running(i)
  /\ LET inv == syncs[i]
     IN CASE inv.pc = "wait1" ->
               /\ syncLogs' = addLog(syncLogs, "Connecting to Drive API...", "", "pending")
               /\ syncs' = [syncs EXCEPT ![i].pc = "wait2"]
               /\ UNCHANGED << certificates, isSyncing >>
          [] inv.pc = "wait2" ->
               LET ws == WorkSet("part_001", inv.certs, inv.apid)
                   plan == Plan("part_001", ws)
               IN /\ IF ws = << >>
                     THEN /\ syncLogs' = addLog(syncLogs, "Vault is already up to date.",
                                                "", "success")
                          /\ syncs' = [syncs EXCEPT ![i].pc = "empty_wait"]
                     ELSE /\ syncLogs' =
                               Announce001(addLog(syncLogs, "Found unsynced items",
                                                  ToString(Len(ws)), "info"), Head(plan))
                          /\ syncs' = [syncs EXCEPT ![i].pc = "step", ![i].plan = plan,
                                                    ![i].work = Ids(ws)]
                  /\ UNCHANGED << certificates, isSyncing >>
          [] inv.pc = "step" ->
               LET step == Head(inv.plan)
                   rest == Tail(inv.plan)
                   logs == Settle001(syncLogs, step)
                   marks == IF step.kind = "item" THEN Append(inv.marked, step.id)
                            ELSE inv.marked
               IN /\ certificates' = IF step.kind = "item"
                                     THEN MarkSynced(certificates, step.id)
                                     ELSE certificates
                  /\ IF rest = << >>
                     THEN /\ syncLogs' = addLog(logs, "Sync Complete!", "", "success")
                          /\ syncs' = [syncs EXCEPT ![i].pc = "done_wait",
                                                    ![i].plan = rest,
                                                    ![i].marked = marks]
                     ELSE /\ syncLogs' = Announce001(logs, Head(rest))
                          /\ syncs' = [syncs EXCEPT ![i].plan = rest,
                                                    ![i].marked = marks]
                  /\ UNCHANGED isSyncing
          [] OTHER ->
               \* the closing timer; setIsSyncing(false)
               /\ isSyncing' = FALSE
               /\ syncs' = [syncs EXCEPT ![i] =
                              Finish(@, IF @.pc = "empty_wait" THEN "empty" ELSE "ok", "")]
               /\ UNCHANGED << certificates, syncLogs >>
  /\ UNCHANGED << variant, clock, error, isProcessing >>
  /\ UNCHANGED << uiVars, authVars, remoteVars >>
  /\ UNCHANGED << storeVars, callVars, dashVars, scan >>

\* index.tsx: the log line written before the timer of a step
AnnounceIndex(logs, step) ==
  addLog(logs, CASE step.kind = "year" -> "Creating year folder"
                 [] step.kind = "cat" -> "Syncing category"
                 [] OTHER -> "Uploading", StepRef(step), "pending")

\* index.tsx: the log line written after the timer of a folder step; an
\* upload writes none
SettleIndex(logs, step) ==
  CASE step.kind = "year" -> addLog(logs, "Folder ready", step.year, "success")
    [] step.kind = "cat" -> addLog(logs, "Folder established", step.cat, "success")
    [] OTHER -> logs

\* syncToDrive, index.tsx: up to the first timer
syncToDriveIndex ==
  /\ variant = "index"
  /\ Rendered("dashboard")
  /\ LET found == FindProfile(profiles, activeProfileId)
     IN \/ /\ found = << >>
           /\ UNCHANGED syncVars
        \/ /\ found # << >>
           /\ Len(syncs) < MaxSyncRuns
           /\ isSyncing' = TRUE
           /\ syncLogs' = addLog(<< >>, "Initializing Google Drive Sync for Profile",
                                 found[1].name, "info")
           /\ syncs' = Launch([NewSync(found[1]) EXCEPT !.pc = "wait1"])
           /\ UNCHANGED isProcessing
  /\ UNCHANGED << variant, certificates, clock, error >>
  /\ UNCHANGED << uiVars, authVars, remoteVars >>
  /\ UNCHANGED << storeVars, callVars, dashVars, scan >>

\* index.tsx: a timer of syncToDrive fires and the code runs to the next one
TimerIndex(i) ==
  /\ variant = "index"
  /\ i \in 1..Len(syncs)
  /\ Running(i)
  /\ LET inv == syncs[i]
         mirrored(logs) == addLog(logs, "fully mirrored on Google Drive",
                                  inv.profile.name, "success")
     IN CASE inv.pc = "wait1" ->
               /\ syncLogs' = addLog(syncLogs, "Creating hierarchy: Drive > CertiVault",
                                     inv.profile.name, "pending")
               /\ syncs' = [syncs EXCEPT ![i].pc = "wait2"]
               /\ UNCHANGED << certificates, isSyncing >>
          [] inv.pc = "wait2" ->
               LET ws == WorkSet("index", inv.certs, inv.apid)
                   plan == Plan("index", ws)
                   logs == addLog(syncLogs, "Root folder established.", "", "success")
               IN /\ IF plan = << >>
                     THEN /\ syncLogs' = mirrored(logs)
                          /\ syncs' = [syncs EXCEPT ![i].pc = "done_wait"]
                     ELSE /\ syncLogs' = AnnounceIndex(logs, Head(plan))
                          /\ syncs' = [syncs EXCEPT ![i].pc = "step", ![i].plan = plan,
                                                    ![i].work = Ids(ws)]
                  /\ UNCHANGED << certificates, isSyncing >>
          [] inv.pc = "step" ->
               LET step == Head(inv.plan)
                   rest == Tail(inv.plan)
                   logs == SettleIndex(syncLogs, step)
                   marks == IF step.kind = "item" THEN Append(inv.marked, step.id)
                            ELSE inv.marked
               IN /\ certificates' = IF step.kind = "item"
                                     THEN MarkSynced(certificates, step.id)
                                     ELSE certificates
                  /\ IF rest = << >>
                     THEN /\ syncLogs' = mirrored(logs)
                          /\ syncs' = [syncs EXCEPT ![i].pc = "done_wait",
                                                    ![i].plan = rest,
                                                    ![i].marked = marks]
                     ELSE /\ syncLogs' = AnnounceIndex(logs, Head(rest))
                          /\ syncs' = [syncs EXCEPT ![i].plan = rest,
                                                    ![i].marked = marks]
                  /\ UNCHANGED isSyncing
          [] OTHER ->
               \* setTimeout(() => setIsSyncing(false), 2000)
               /\ isSyncing' = FALSE
               /\ syncs' = [syncs EXCEPT ![i] = Finish(@, "ok", "")]
               /\ UNCHANGED << certificates, syncLogs >>
  /\ UNCHANGED << variant, clock, error, isProcessing >>
  /\ UNCHANGED << uiVars, authVars, remoteVars >>
  /\ UNCHANGED << storeVars, callVars, dashVars, scan >>

\* ------------------------------------------------------------------- Spec
Next ==
  \/ \E p \in 1..MaxProfiles : selectProfile(p)
  \/ syncToDrive000
  \/ \E i \in 1..MaxSyncRuns, out \in Outcomes : ListResolves(i, out)
  \/ \E i \in 1..MaxSyncRuns, out \in Outcomes : CreateResolves(i, out)
  \/ \E i \in 1..MaxSyncRuns, ok \in BOOLEAN : RenderResolves(i, ok)
  \/ \E i \in 1..MaxSyncRuns, out \in Outcomes : UploadResolves(i, out)
  \/ \E i \in 1..MaxSyncRuns : FinalTimer000(i)
  \/ syncToDrive001
  \/ \E i \in 1..MaxSyncRuns : Timer001(i)
  \/ syncToDriveIndex
  \/ \E i \in 1..MaxSyncRuns : TimerIndex(i)

Spec == Init /\ [][Next]_vars

\* A request to Drive settles (fetch resolves or rejects), the PDF renderer
\* returns or throws, and a timer that was set fires: each continuation of a
\* running invocation is eventually run.
Fairness ==
  /\ WF_vars(\E i \in 1..MaxSyncRuns, out \in Outcomes : ListResolves(i, out))
  /\ WF_vars(\E i \in 1..MaxSyncRuns, out \in Outcomes : CreateResolves(i, out))
  /\ WF_vars(\E i \in 1..MaxSyncRuns, ok \in BOOLEAN : RenderResolves(i, ok))
  /\ WF_vars(\E i \in 1..MaxSyncRuns, out \in Outcomes : UploadResolves(i, out))
  /\ WF_vars(\E i \in 1..MaxSyncRuns : FinalTimer000(i))
  /\ WF_vars(\E i \in 1..MaxSyncRuns : Timer001(i))
  /\ WF_vars(\E i \in 1..MaxSyncRuns : TimerIndex(i))

SpecLive == Init /\ [][Next]_vars /\ Fairness

\* The Drive-backed variant, signed in, with one profile and at most one
\* record, and the Sync button activated from the keyboard as well.
InitReentry ==
  /\ Init
  /\ variant = "part_000"
  /\ accessToken
  /\ Len(profiles) = 1
  /\ Len(certificates) <= 1

NextReentry ==
  \/ syncToDrive000
  \/ syncToDrive000Key
  \/ \E i \in 1..MaxSyncRuns, out \in Outcomes : ListResolves(i, out)
  \/ \E i \in 1..MaxSyncRuns, out \in Outcomes : CreateResolves(i, out)
  \/ \E i \in 1..MaxSyncRuns, ok \in BOOLEAN : RenderResolves(i, ok)
  \/ \E i \in 1..MaxSyncRuns, out \in Outcomes : UploadResolves(i, out)
  \/ \E i \in 1..MaxSyncRuns : FinalTimer000(i)

SpecReentry == InitReentry /\ [][NextReentry]_vars

\* The sync engine together with the persist effect, which runs in a task of
\* its own after the render that follows a state update.
NextPersist ==
  \/ PersistEffect
  \/ \E p \in 1..MaxProfiles : selectProfile(p)
  \/ syncToDrive000
  \/ \E i \in 1..MaxSyncRuns, out \in Outcomes : ListResolves(i, out)
  \/ \E i \in 1..MaxSyncRuns, out \in Outcomes : CreateResolves(i, out)
  \/ \E i \in 1..MaxSyncRuns, ok \in BOOLEAN : RenderResolves(i, ok)
  \/ \E i \in 1..MaxSyncRuns, out \in Outcomes : UploadResolves(i, out)
  \/ \E i \in 1..MaxSyncRuns : FinalTimer000(i)
  \/ syncToDrive001
  \/ \E i \in 1..MaxSyncRuns : Timer001(i)
  \/ syncToDriveIndex
  \/ \E i \in 1..MaxSyncRuns : TimerIndex(i)

SpecPersist == Init /\ [][NextPersist]_vars

\* ------------------------------------------------------ getAcademicYear alone
\* the component as its useState initialisers leave it, nothing loaded yet;
\* the Google session and My Drive are set by the specification that uses it
Constructed ==
  /\ variant \in Variants
  /\ user = FALSE
  /\ profiles = << >>
  /\ activeProfileId = 0
  /\ certificates = << >>
  /\ clock = 0
  /\ pendingCert = << >>
  /\ selectedCert = 0
  /\ view = "dashboard"
  /\ isProcessing = FALSE
  /\ isSyncing = FALSE
  /\ error = ""
  /\ syncLogs = << >>
  /\ tokenRequests = 0
  /\ tokenPending = 0
  /\ userinfoPending = 0
  /\ files = << >>
  /\ syncs = << >>
  /\ customCategories = << >>
  /\ localStorage = << >>
  /\ searchQuery = << >>
  /\ selectedFilterTags = << >>
  /\ selectedIds = {}
  /\ isSelectionMode = FALSE
  /\ exported = << >>

InitClassify ==
  /\ Constructed
  /\ accessToken = FALSE
  /\ googleUser = FALSE
  /\ folders = {}
  /\ dateStr \in DateStrings
  /\ utcOffset \in Offsets
  /\ returned = << >>
  /\ folderName = << >>
  /\ parentFolder = 0
  /\ escapes = "pairs"
  /\ request = << >>
  /\ scan = << >>

\* one call of getAcademicYear(dateStr); it has no throw and calls nothing
\* that throws on a string
CallGetAcademicYear ==
  /\ returned = << >>
  /\ returned' = << getAcademicYear(variant, NewDate(dateStr, utcOffset)) >>
  /\ UNCHANGED << variant, certificates, clock, error, dateStr, utcOffset >>
  /\ UNCHANGED << folderName, parentFolder, escapes, request, scan >>
  /\ UNCHANGED << uiVars, authVars, remoteVars, syncVars, storeVars, dashVars >>

NextClassify == CallGetAcademicYear

SpecClassify == InitClassify /\ [][NextClassify]_vars

\* --------------------------------------------------- findOrCreateFolder alone
\* A folder name is a sequence of symbols: a letter, a single quote, a
\* backslash, and one symbol for the text " or name = ".
MaxNameLen == 3
MaxStoredLen == 2
Symbols == {"a", "'", "\\", " or name = "}

NamesUpTo(n) == UNION { [1..k -> Symbols] : k \in 0..n }

\* name.replace(/'/g, "\\'"): a backslash before every single quote
RECURSIVE Escape(_)
Escape(name) ==
  IF name = << >> THEN << >>
  ELSE (IF Head(name) = "'" THEN << "\\", "'" >> ELSE << Head(name) >>)
         \o Escape(Tail(name))

\* the template literal of the q parameter; encodeURIComponent and the
\* server's decoding of the URL hand these symbols over unchanged
Query(name, parentId) ==
  << "name =", "'" >> \o Escape(name)
    \o << "'", "and", "mimeType =", "'", "application/vnd.google-apps.folder", "'",
          "and", "trashed = false" >>
    \o (IF parentId # 0 THEN << "and", "'", ToString(parentId), "'", "in parents" >>
        ELSE << >>)

\* Drive reading q.  A quoted string runs to the next quote that has no
\* backslash before it; \' stands for a quote.  Whether \\ stands for one
\* backslash ("pairs") or a backslash not followed by a quote stands for
\* itself ("quoteOnly") is Drive's choice.  Outside a string a backslash is
\* not a token.  The result is << >> for a malformed q, else << tokens >>.
RECURSIVE Outside(_, _, _), Inside(_, _, _, _)
Outside(q, esc, toks) ==
  IF q = << >> THEN << toks >>
  ELSE IF Head(q) = "'" THEN Inside(Tail(q), esc, << >>, toks)
  ELSE IF Head(q) = "\\" THEN << >>
  ELSE IF Head(q) = " or name = "
    THEN Outside(Tail(q), esc, toks \o << [word |-> "or"], [word |-> "name ="] >>)
  ELSE Outside(Tail(q), esc, Append(toks, [word |-> Head(q)]))

Inside(q, esc, cur, toks) ==
  IF q = << >> THEN << >>
  ELSE IF Head(q) = "'" THEN Outside(Tail(q), esc, Append(toks, [str |-> cur]))
  ELSE IF Head(q) = "\\"
    THEN IF Len(q) = 1 THEN << >>
         ELSE IF q[2] = "'" THEN Inside(Tail(Tail(q)), esc, Append(cur, "'"), toks)
         ELSE IF esc = "quoteOnly" THEN Inside(Tail(q), esc, Append(cur, "\\"), toks)
         ELSE IF q[2] = "\\" THEN Inside(Tail(Tail(q)), esc, Append(cur, "\\"), toks)
         ELSE << >>
  ELSE Inside(Tail(q), esc, Append(cur, Head(q)), toks)

RECURSIVE Split(_, _)
\* the token runs between the occurrences of the word sep
Split(toks, sep) ==
  IF \A i \in 1..Len(toks) : toks[i] # [word |-> sep] THEN << toks >>
  ELSE LET i == CHOOSE j \in 1..Len(toks) :
                  toks[j] = [word |-> sep] /\ \A k \in 1..(j - 1) : toks[k] # [word |-> sep]
       IN << SubSeq(toks, 1, i - 1) >> \o Split(SubSeq(toks, i + 1, Len(toks)), sep)

IsStr(t) == DOMAIN t = {"str"}

\* one term of q: well formed, and true of folder f
TermOk(c) ==
  \/ Len(c) = 2 /\ c[1] \in {[word |-> "name ="], [word |-> "mimeType ="]} /\ IsStr(c[2])
  \/ Len(c) = 2 /\ IsStr(c[1]) /\ c[2] = [word |-> "in parents"]
  \/ c = << [word |-> "trashed = false"] >>

TermHolds(c, f) ==
  \/ c[1] = [word |-> "name ="] /\ c[2].str = f.name
  \/ c[1] = [word |-> "mimeType ="] /\ c[2].str = << "application/vnd.google-apps.folder" >>
  \/ c = << [word |-> "trashed = false"] >>
  \/ Len(c) = 2 /\ c[2] = [word |-> "in parents"] /\ c[1].str = << ToString(f.parent) >>

\* q as Drive understands it: << >> when it answers 400, else the terms,
\* "and" binding tighter than "or"
Parse(q, esc) ==
  LET lexed == Outside(q, esc, << >>)
      alts == IF lexed = << >> THEN << >>
              ELSE LET o == Split(lexed[1], "or")
                   IN [ i \in 1..Len(o) |-> Split(o[i], "and") ]
  IN IF lexed # << >>
        /\ \A i \in 1..Len(alts) : \A j \in 1..Len(alts[i]) : TermOk(alts[i][j])
     THEN << alts >> ELSE << >>

\* files.list: the folders q selects
Listed(q, esc, store) ==
  LET alts == Parse(q, esc)[1]
  IN { f \in store : \E i \in 1..Len(alts) :
                        \A j \in 1..Len(alts[i]) : TermHolds(alts[i][j], f) }

\* My Drive before the call: two folders at the top (the parents a call can
\* name) and, in each of them, a folder of the same stored name
Drive(stored) ==
  { [id |-> 1, name |-> << "a" >>, parent |-> 0],
    [id |-> 2, name |-> << "a" >>, parent |-> 0],
    [id |-> 3, name |-> stored, parent |-> 1],
    [id |-> 4, name |-> stored, parent |-> 2] }

InitQuery ==
  /\ Constructed
  /\ variant = "part_000"
  /\ accessToken = TRUE
  /\ googleUser = TRUE
  /\ folders \in { Drive(stored) : stored \in NamesUpTo(MaxStoredLen) }
  /\ dateStr = [kind |-> "empty"]
  /\ utcOffset = 0
  /\ returned = << >>
  /\ folderName \in NamesUpTo(MaxNameLen)
  /\ parentFolder \in 0..2
  /\ escapes \in {"pairs", "quoteOnly"}
  /\ request = << >>
  /\ scan = << >>

\* findOrCreateFolder up to its first await: the files.list request goes out
FindOrCreateFolderCall ==
  /\ request = << >>
  /\ returned = << >>
  /\ request' = << [kind |-> "list", q |-> Query(folderName, parentFolder)] >>
  /\ UNCHANGED << variant, certificates, clock, error, customCategories, localStorage >>
  /\ UNCHANGED << dateStr, utcOffset, returned, folderName, parentFolder, escapes >>
  /\ UNCHANGED << uiVars, authVars, remoteVars, syncVars, scan, dashVars >>

\* the list answers: 400 for a malformed q or another failure (driveApi
\* throws), a hit (list.files[0].id is returned, first in Drive's order), or
\* a miss (the POST that creates the folder goes out)
FolderListResolves(ok) ==
  /\ request # << >>
  /\ request[1].kind = "list"
  /\ IF ~ok \/ Parse(request[1].q, escapes) = << >>
     THEN /\ returned' = << [threw |-> TRUE, id |-> 0] >>
          /\ request' = << >>
     ELSE LET hits == Listed(request[1].q, escapes, folders)
          IN IF hits # {}
             THEN /\ \E f \in hits : returned' = << [threw |-> FALSE, id |-> f.id] >>
                  /\ request' = << >>
             ELSE /\ request' = << [kind |-> "create", name |-> folderName,
                                    parents |-> IF parentFolder # 0
                                                THEN << parentFolder >> ELSE << >>] >>
                  /\ UNCHANGED returned
  /\ UNCHANGED << variant, certificates, clock, error, customCategories, localStorage >>
  /\ UNCHANGED << dateStr, utcOffset, folderName, parentFolder, escapes >>
  /\ UNCHANGED << uiVars, authVars, remoteVars, syncVars, scan, dashVars >>

\* the POST answers: Drive puts the folder into parents[0], or into My Drive
\* when parents is empty
FolderCreateResolves(ok) ==
  /\ request # << >>
  /\ request[1].kind = "create"
  /\ request' = << >>
  /\ IF ok
     THEN /\ folders' = folders \cup
                { [id |-> 5, name |-> request[1].name,
                   parent |-> IF request[1].parents = << >> THEN 0
                              ELSE request[1].parents[1]] }
          /\ returned' = << [threw |-> FALSE, id |-> 5] >>
     ELSE /\ returned' = << [threw |-> TRUE, id |-> 0] >>
          /\ UNCHANGED folders
  /\ UNCHANGED << variant, certificates, clock, error, customCategories, localStorage >>
  /\ UNCHANGED << dateStr, utcOffset, folderName, parentFolder, escapes, files >>
  /\ UNCHANGED << uiVars, authVars, syncVars, scan, dashVars >>

NextQuery ==
  \/ FindOrCreateFolderCall
  \/ \E ok \in BOOLEAN : FolderListResolves(ok)
  \/ \E ok \in BOOLEAN : FolderCreateResolves(ok)

SpecQuery == InitQuery /\ [][NextQuery]_vars

\* ------------------------------------------------------------------ the vault
\* scanning, the editor, custom categories, the persist effect and startup
MaxClock == 4             \* Date.now() values handed out in one behaviour
MaxCustomCategories == 1  \* categories the user adds

Today == Aug2024          \* new Date().toISOString().split('T')[0]
NoDate == [kind |-> "empty"]

RectifyOutcomes == {"cleaned", "none", "fails"}
MetadataOutcomes == {"ok", "missing", "malformed", "fails"}

CameraDenied(v) ==
  CASE v = "part_000" -> "Camera access denied. Please verify your browser permissions."
    [] v = "part_001" -> "Camera access denied. Please check permissions."
    [] OTHER -> "Camera access denied."

\* the record of the catch block of processCertificate
FallbackCert(v, id, profileId) ==
  [id |-> id, profileId |-> profileId, image |-> "original", synced |-> FALSE,
   title |-> CASE v = "part_000" -> "Record Scan"
               [] v = "part_001" -> "Certificate Scan"
               [] OTHER -> "New Certificate",
   date |-> IF v = "index" THEN NoDate ELSE Today,
   category |-> "Other"]

FallbackError(v) ==
  CASE v = "part_000" -> "AI Analysis failed. Please enter details manually."
    [] v = "part_001" -> "AI processing failed. Manual entry enabled."
    [] OTHER -> "AI was unable to process the text. Please enter details manually."

\* the record of the try block: the fields the service delivered, the
\* defaults of the || operators for those it did not
ExtractedCert(v, id, profileId, image, delivered, input) ==
  [id |-> id, profileId |-> profileId, image |-> image, synced |-> FALSE,
   title |-> IF delivered THEN "Merit Award"
             ELSE CASE v = "part_000" -> "Record Scan"
                    [] v = "part_001" -> "New Certificate"
                    [] OTHER -> "Certificate of Participation",
   date |-> IF delivered THEN input[1] ELSE IF v = "index" THEN NoDate ELSE Today,
   category |-> IF delivered THEN input[2]
                ELSE IF v = "index" THEN "Competitions" ELSE "Other"]

\* the scan buttons of the dashboard (part_001 shows them once a profile exists)
ScanButtons ==
  Rendered("dashboard") /\ (variant = "part_001" => profiles # << >>)

\* startCamera, with the answer of getUserMedia
startCamera(granted) ==
  /\ ScanButtons
  /\ IF granted
     THEN /\ view' = "scanner"
          /\ error' = IF variant = "index" THEN error ELSE ""
     ELSE /\ error' = CameraDenied(variant)
          /\ UNCHANGED view
  /\ UNCHANGED << variant, user, profiles, activeProfileId, certificates, pendingCert,
                  selectedCert, clock >>
  /\ UNCHANGED << authVars, remoteVars, syncVars, storeVars, callVars, dashVars, scan >>

\* the back button of the scanner view
ScannerBack ==
  /\ Rendered("scanner")
  /\ view' = "dashboard"
  /\ UNCHANGED << variant, user, profiles, activeProfileId, certificates, pendingCert,
                  selectedCert, error, clock >>
  /\ UNCHANGED << authVars, remoteVars, syncVars, storeVars, callVars, dashVars, scan >>

\* processCertificate up to its first await; it keeps the activeProfileId of
\* the render it was called from
BeginScan ==
  /\ clock < MaxClock
  /\ Len(certificates) < MaxCerts
  /\ isProcessing' = TRUE
  /\ scan' = << [stage |-> CASE variant = "index" -> "onload"
                             [] variant = "part_000" -> "rectify"
                             [] OTHER -> "metadata",
                 profileId |-> activeProfileId, image |-> "original"] >>
  /\ UNCHANGED << variant, user, profiles, activeProfileId, certificates, pendingCert,
                  selectedCert, error, clock, isSyncing, syncLogs, syncs >>
  /\ UNCHANGED << authVars, remoteVars, storeVars, callVars, dashVars >>

\* the shutter button: the frame is resized and handed to processCertificate
capturePhoto ==
  /\ Rendered("scanner")
  /\ view' = IF variant = "part_000" THEN view ELSE "dashboard"
  /\ BeginScan

\* part_001 / index.tsx: a picture chosen with the file input
handleFileUpload ==
  /\ variant # "part_000"
  /\ ScanButtons
  /\ UNCHANGED view
  /\ BeginScan

\* index.tsx: img.onload resolves the first await of processCertificate
ImageLoads ==
  /\ scan # << >>
  /\ scan[1].stage = "onload"
  /\ scan' = << [scan[1] EXCEPT !.stage = "rectify"] >>
  /\ UNCHANGED << variant, certificates, clock, error >>
  /\ UNCHANGED << uiVars, authVars, remoteVars, syncVars, storeVars, callVars, dashVars >>

\* (mutant of Fallback) the catch block reports the error and leaves no record
FallbackNoRecord ==
  /\ error' = FallbackError(variant)
  /\ IF variant = "index"
     THEN /\ scan' = << [stage |-> "timers", toEditor |-> FALSE] >>
          /\ UNCHANGED isProcessing
     ELSE /\ scan' = << >>
          /\ isProcessing' = FALSE
  /\ UNCHANGED << variant, user, profiles, activeProfileId, certificates, pendingCert,
                  selectedCert, view, clock, isSyncing, syncLogs, syncs >>
  /\ UNCHANGED << authVars, remoteVars, storeVars, callVars, dashVars >>

\* what catch and finally do
Fallback ==
  /\ clock' = clock + 1
  /\ error' = FallbackError(variant)
  /\ pendingCert' = << FallbackCert(variant, clock + 1, scan[1].profileId) >>
  /\ view' = "editor"
  /\ IF variant = "index"
     THEN /\ scan' = << [stage |-> "timers", toEditor |-> FALSE] >>
          /\ UNCHANGED isProcessing
     ELSE /\ scan' = << >>
          /\ isProcessing' = FALSE
  /\ UNCHANGED << variant, user, profiles, activeProfileId, certificates,
                  selectedCert, isSyncing, syncLogs, syncs >>
  /\ UNCHANGED << authVars, remoteVars, storeVars, callVars, dashVars >>

\* part_000 / index.tsx: the image call answers
RectifyResolves(r) ==
  /\ scan # << >>
  /\ scan[1].stage = "rectify"
  /\ IF r = "fails" THEN Fallback
     ELSE /\ scan' = << [scan[1] EXCEPT !.stage = "metadata",
                                       !.image = IF r = "cleaned" THEN "cleaned"
                                                 ELSE "original"] >>
          /\ UNCHANGED << variant, certificates, clock, error >>
          /\ UNCHANGED << uiVars, authVars, remoteVars, syncVars, storeVars, callVars, dashVars >>

\* the metadata call answers (part_001: the one call, whose answer may hold
\* a cleaned image as well).  Malformed JSON is thrown by JSON.parse, which
\* part_001 catches on the spot and goes on with no fields.
MetadataResolves(m, r, input) ==
  /\ scan # << >>
  /\ scan[1].stage = "metadata"
  /\ r \in IF variant = "part_001" THEN {"cleaned", "none"} ELSE {"none"}
  /\ IF m = "fails" \/ (m = "malformed" /\ variant # "part_001")
     THEN Fallback
     ELSE /\ clock' = clock + 1
          /\ pendingCert' =
               << ExtractedCert(variant, clock + 1, scan[1].profileId,
                                IF r = "cleaned" THEN "cleaned" ELSE scan[1].image,
                                m = "ok", input) >>
          /\ IF variant = "index"
             THEN /\ scan' = << [stage |-> "timers", toEditor |-> TRUE] >>
                  /\ UNCHANGED << view, isProcessing >>
             ELSE /\ scan' = << >>
                  /\ view' = "editor"
                  /\ isProcessing' = FALSE
          /\ UNCHANGED << variant, user, profiles, activeProfileId, certificates,
                          selectedCert, error, isSyncing, syncLogs, syncs >>
          /\ UNCHANGED << authVars, remoteVars, storeVars, callVars, dashVars >>

\* index.tsx: setTimeout(() => setView('editor'), 400)
EditorTimer ==
  /\ scan # << >>
  /\ scan[1].stage = "timers"
  /\ scan[1].toEditor
  /\ view' = "editor"
  /\ scan' = << [scan[1] EXCEPT !.toEditor = FALSE] >>
  /\ UNCHANGED << variant, user, profiles, activeProfileId, certificates, pendingCert,
                  selectedCert, error, clock >>
  /\ UNCHANGED << authVars, remoteVars, syncVars, storeVars, callVars, dashVars >>

\* index.tsx: the timer of the finally block, 600 ms
ClearTimer ==
  /\ scan # << >>
  /\ scan[1].stage = "timers"
  /\ ~scan[1].toEditor
  /\ isProcessing' = FALSE
  /\ scan' = << >>
  /\ UNCHANGED << variant, certificates, clock, error, isSyncing, syncLogs, syncs >>
  /\ UNCHANGED << uiVars, authVars, remoteVars, storeVars, callVars, dashVars >>

\* part_001 handleCreateCustomCategory (a name not yet in the list), index.tsx
\* the Add button of the category dialog of the editor (any name)
handleCreateCustomCategory(name) ==
  /\ variant # "part_000"
  /\ Rendered("editor")
  /\ pendingCert # << >>
  /\ Len(customCategories) < MaxCustomCategories
  /\ variant = "part_001" => name \notin Range(customCategories)
  /\ customCategories' = Append(customCategories, name)
  /\ pendingCert' = << [pendingCert[1] EXCEPT !.category = name] >>
  /\ UNCHANGED << variant, user, profiles, activeProfileId, certificates,
                  selectedCert, view, error, clock, localStorage >>
  /\ UNCHANGED << authVars, remoteVars, syncVars, callVars, dashVars, scan >>

\* (mutant of Loaded) the load effect restores no custom categories
LoadedNoCategories(v, saved, now) ==
  LET none == [profiles |-> << >>, certificates |-> << >>, activeProfileId |-> 0,
               customCategories |-> << >>]
      default == [none EXCEPT !.profiles = << [id |-> now, name |-> "Subhavya"] >>,
                              !.activeProfileId = now]
      data == [JSONparse(saved[1]) EXCEPT !.customCategories = << >>]
  IN IF saved = << >> THEN IF v = "index" THEN default ELSE none
     ELSE IF v = "index" /\ data.profiles = << >>
       THEN [default EXCEPT !.certificates = data.certificates]
     ELSE data

\* the load effect: what it sets from the item it finds, on top of the
\* useState initial values
Loaded(v, saved, now) ==
  LET none == [profiles |-> << >>, certificates |-> << >>, activeProfileId |-> 0,
               customCategories |-> << >>]
      default == [none EXCEPT !.profiles = << [id |-> now, name |-> "Subhavya"] >>,
                              !.activeProfileId = now]
      data == JSONparse(saved[1])
  IN IF saved = << >> THEN IF v = "index" THEN default ELSE none
     ELSE IF v = "index" /\ data.profiles = << >>
       THEN [default EXCEPT !.certificates = data.certificates,
                            !.customCategories = data.customCategories]
     ELSE data

\* the page is opened again: useState initial values, then the two mount
\* effects in their order: the load effect reads the item and queues what it
\* found, the persist effect writes the still empty state of the first
\* render; the queued state is what the next render shows
Startup ==
  /\ clock < MaxClock
  /\ LET fresh == variant = "index"
                    /\ (localStorage = << >> \/ JSONparse(localStorage[1]).profiles = << >>)
         now == IF fresh THEN clock + 1 ELSE clock
         state == Loaded(variant, localStorage, now)
     IN /\ clock' = now
        /\ profiles' = state.profiles
        /\ activeProfileId' = state.activeProfileId
        /\ certificates' = state.certificates
        /\ customCategories' = state.customCategories
  /\ localStorage' =
       IF variant = "index" /\ ~user THEN localStorage
       ELSE << JSONstringify([profiles |-> << >>, certificates |-> << >>,
                              activeProfileId |-> 0, customCategories |-> << >>]) >>
  /\ pendingCert' = << >>
  /\ selectedCert' = 0
  /\ view' = "dashboard"
  /\ error' = ""
  /\ isProcessing' = FALSE
  /\ scan' = << >>
  /\ accessToken' = FALSE
  /\ googleUser' = FALSE
  /\ searchQuery' = << >>
  /\ selectedFilterTags' = << >>
  /\ selectedIds' = {}
  /\ isSelectionMode' = FALSE
  /\ UNCHANGED << variant, user, isSyncing, syncLogs, syncs, tokenRequests,
                  tokenPending, userinfoPending, exported >>
  /\ UNCHANGED << remoteVars, callVars >>

\* React runs the effects of a render before it handles the next event or
\* renders the next update: the persist effect, once due, comes before any
\* other step of the page; only closing the page can come before it
EffectsFlushed == (variant = "index" /\ ~user) \/ localStorage = << JSONstringify(Blob) >>

NextVault ==
  \/ PersistEffect
  \/ Startup
  \/ \E name \in {"Asha", "CertiVault"} : EffectsFlushed /\ handleCreateProfile(name)
  \/ \E p \in 1..MaxClock : EffectsFlushed /\ selectProfile(p)
  \/ \E granted \in BOOLEAN : EffectsFlushed /\ startCamera(granted)
  \/ EffectsFlushed /\ ScannerBack
  \/ EffectsFlushed /\ capturePhoto
  \/ EffectsFlushed /\ handleFileUpload
  \/ EffectsFlushed /\ ImageLoads
  \/ \E r \in RectifyOutcomes : EffectsFlushed /\ RectifyResolves(r)
  \/ \E m \in MetadataOutcomes, r \in {"cleaned", "none"}, input \in ScanInputs :
       EffectsFlushed /\ MetadataResolves(m, r, input)
  \/ EffectsFlushed /\ EditorTimer
  \/ EffectsFlushed /\ ClearTimer
  \/ \E name \in {"Music"} : EffectsFlushed /\ handleCreateCustomCategory(name)
  \/ EffectsFlushed /\ VaultButton
  \/ \E n \in {"", "Asha"} : EffectsFlushed /\ saveCertificate(n)
  \/ EffectsFlushed /\ SaveButton
  \/ EffectsFlushed /\ BackButton

\* a vault with its profiles and no record yet
InitVault ==
  /\ Init
  /\ certificates = << >>

SpecVault == InitVault /\ [][NextVault]_vars

\* ------------------------------------------------- the dashboard's filters
\* A text is the sequence of its characters.  Spell gives the text of the
\* strings a record of this section holds and of the labels getAcademicYear
\* returns for them.
Digit(d) == << "0", "1", "2", "3", "4", "5", "6", "7", "8", "9" >>[d + 1]

RECURSIVE Digits(_)
Digits(n) == IF n < 10 THEN << Digit(n) >> ELSE Append(Digits(n \div 10), Digit(n % 10))

LabelYears == 2022..2025

Spell(s) ==
  CASE s = "Merit Award" -> << "M", "e", "r", "i", "t", " ", "A", "w", "a", "r", "d" >>
    [] s = "CBSE" -> << "C", "B", "S", "E" >>
    [] s = "Asha" -> << "A", "s", "h", "a" >>
    [] s = "Art" -> << "A", "r", "t" >>
    [] s = "Academics" -> << "A", "c", "a", "d", "e", "m", "i", "c", "s" >>
    [] s = "Sports" -> << "S", "p", "o", "r", "t", "s" >>
    [] s = "gold" -> << "g", "o", "l", "d" >>
    [] \E y \in LabelYears : s = label(y) ->
         LET y == CHOOSE z \in LabelYears : s = label(z)
         IN Digits(y) \o << "-" >> \o Digits(y + 1)

UpperCase == << "A", "B", "C", "D", "E", "F", "G", "H", "I", "J", "K", "L", "M",
                "N", "O", "P", "Q", "R", "S", "T", "U", "V", "W", "X", "Y", "Z" >>
LowerCase == << "a", "b", "c", "d", "e", "f", "g", "h", "i", "j", "k", "l", "m",
                "n", "o", "p", "q", "r", "s", "t", "u", "v", "w", "x", "y", "z" >>

\* String.prototype.toLowerCase
toLowerCase(t) ==
  [ i \in 1..Len(t) |->
      IF \E k \in 1..26 : UpperCase[k] = t[i]
      THEN LowerCase[CHOOSE k \in 1..26 : UpperCase[k] = t[i]]
      ELSE t[i] ]

\* String.prototype.includes
includes(t, q) == \E i \in 0..(Len(t) - Len(q)) : SubSeq(t, i + 1, i + Len(q)) = q

RECURSIVE trimStart(_)
trimStart(t) == IF t # << >> /\ Head(t) = " " THEN trimStart(Tail(t)) ELSE t

RECURSIVE trimEnd(_)
trimEnd(t) ==
  IF t # << >> /\ t[Len(t)] = " " THEN trimEnd(SubSeq(t, 1, Len(t) - 1)) ELSE t

\* String.prototype.trim
trim(t) == trimEnd(trimStart(t))

\* the predicate of the search stage; q is the lower-cased search box
matchesQuery(v, c, q) ==
  IF v = "part_001"
  THEN \/ includes(toLowerCase(Spell(c.title)), q)
       \/ includes(toLowerCase(Spell(c.issuer)), q)
       \/ includes(toLowerCase(Spell(c.studentName)), q)
       \/ \E k \in 1..Len(c.tags) : includes(toLowerCase(Spell(c.tags[k])), q)
       \/ includes(toLowerCase(Spell(getAcademicYear(v, c.date))), q)
       \/ includes(toLowerCase(Spell(c.category)), q)
  ELSE \/ includes(toLowerCase(Spell(c.title)), q)
       \/ includes(toLowerCase(Spell(c.issuer)), q)
       \/ includes(toLowerCase(Spell(c.studentName)), q)
       \/ includes(toLowerCase(Spell(c.subject)), q)

\* (mutant of matchesTags) every selected filter has to fit the record
matchesEveryTag(v, c, tags) ==
  LET ay == getAcademicYear(v, c.date)
  IN \A k \in 1..Len(tags) :
       tags[k] = ay \/ tags[k] = c.category \/ tags[k] \in Range(c.tags)

\* the predicate of the quick-filter stage
matchesTags(v, c, tags) ==
  IF v = "part_001"
  THEN LET ay == getAcademicYear(v, c.date)
       IN \E k \in 1..Len(tags) :
            tags[k] = ay \/ tags[k] = c.category \/ tags[k] \in Range(c.tags)
  ELSE c.category \in Range(tags) \/ getAcademicYear(v, c.date) \in Range(tags)

\* the useMemo of the dashboard: the records it shows
filteredCerts ==
  LET own == SelectSeq(certificates, LAMBDA c : c.profileId = activeProfileId)
      q == toLowerCase(searchQuery)
      found == IF trim(searchQuery) # << >>
               THEN SelectSeq(own, LAMBDA c : matchesQuery(variant, c, q))
               ELSE own
  IN IF Len(selectedFilterTags) > 0
     THEN SelectSeq(found, LAMBDA c : matchesTags(variant, c, selectedFilterTags))
     ELSE found

\* the quick-filter buttons of the dashboard: part_001 offers the academic
\* years, categories and tags of the active profile's records, index.tsx the
\* academic years of the active profile's records and every category
availableQuickFilters ==
  LET own == { c \in Range(certificates) : c.profileId = activeProfileId }
      years == { getAcademicYear(variant, c.date) : c \in own }
  IN IF variant = "part_001"
     THEN years \cup { c.category : c \in own } \cup UNION { Range(c.tags) : c \in own }
     ELSE years \cup {"Academics", "Sports"} \cup Range(customCategories)

\* onChange of the search box
setSearchQuery(q) ==
  /\ variant # "part_000"
  /\ Rendered("dashboard")
  /\ q # searchQuery
  /\ searchQuery' = q
  /\ UNCHANGED << variant, certificates, clock, error, selectedFilterTags, selectedIds,
                  isSelectionMode, exported >>
  /\ UNCHANGED << uiVars, authVars, remoteVars, syncVars, storeVars, callVars, scan >>

toggleFilterTag(tag) ==
  /\ variant # "part_000"
  /\ Rendered("dashboard")
  /\ tag \in availableQuickFilters
  /\ tag \in Range(selectedFilterTags) \/ Len(selectedFilterTags) < MaxFilterTags
  /\ selectedFilterTags' =
       IF tag \in Range(selectedFilterTags)
       THEN SelectSeq(selectedFilterTags, LAMBDA t : t # tag)
       ELSE Append(selectedFilterTags, tag)
  /\ UNCHANGED << variant, certificates, clock, error, searchQuery, selectedIds,
                  isSelectionMode, exported >>
  /\ UNCHANGED << uiVars, authVars, remoteVars, syncVars, storeVars, callVars, scan >>

\* the Clear button, shown while a filter or a search text is set
clearFilters ==
  /\ variant # "part_000"
  /\ Rendered("dashboard")
  /\ Len(selectedFilterTags) > 0 \/ searchQuery # << >>
  /\ selectedFilterTags' = << >>
  /\ searchQuery' = << >>
  /\ UNCHANGED << variant, certificates, clock, error, selectedIds, isSelectionMode,
                  exported >>
  /\ UNCHANGED << uiVars, authVars, remoteVars, syncVars, storeVars, callVars, scan >>

\* what can be typed into the search box
QuerySymbols == {"P", "h", "g", " "}

RECURSIVE TextsUpTo(_)
TextsUpTo(n) ==
  IF n = 0 THEN { << >> }
  ELSE LET shorter == TextsUpTo(n - 1)
       IN shorter \cup { Append(t, ch) : t \in shorter, ch \in QuerySymbols }

\* the records of a vault, with the texts the search reads: the newest first,
\* ids from the clock; a record of index.tsx has no tags
FilterCertificates(v, ps) ==
  LET shapes == [date : {Feb2024, Aug2024}, category : {"Academics", "Sports"},
                 tags : IF v = "part_001" THEN { << >>, << "gold" >> } ELSE { << >> },
                 profileId : { p.id : p \in Range(ps) }]
  IN UNION { { [ i \in 1..k |->
                   [id |-> Len(ps) + k + 1 - i, profileId |-> f[i].profileId,
                    title |-> "Merit Award", issuer |-> "CBSE", studentName |-> "Asha",
                    subject |-> "Art", tags |-> f[i].tags, image |-> "cleaned",
                    date |-> f[i].date, category |-> f[i].category, synced |-> FALSE] ]
               : f \in [1..k -> shapes] }
             : k \in 0..MaxCerts }

InitFilter ==
  /\ variant \in {"part_001", "index"}
  /\ user = TRUE
  /\ profiles = IF variant = "index" THEN << [id |-> 1, name |-> "Subhavya"] >>
                ELSE << [id |-> 1, name |-> "Asha"], [id |-> 2, name |-> "CertiVault"] >>
  /\ activeProfileId = profiles[Len(profiles)].id
  /\ certificates \in FilterCertificates(variant, profiles)
  /\ clock = Len(profiles) + Len(certificates)
  /\ pendingCert = << >>
  /\ selectedCert = 0
  /\ view = "dashboard"
  /\ isProcessing = FALSE
  /\ isSyncing = FALSE
  /\ error = ""
  /\ syncLogs = << >>
  /\ accessToken = FALSE
  /\ googleUser = FALSE
  /\ tokenRequests = 0
  /\ tokenPending = 0
  /\ userinfoPending = 0
  /\ folders = {}
  /\ files = << >>
  /\ syncs = << >>
  /\ customCategories = << >>
  /\ localStorage = << JSONstringify(Blob) >>
  /\ dateStr = [kind |-> "empty"]
  /\ utcOffset = 0
  /\ returned = << >>
  /\ folderName = << >>
  /\ parentFolder = 0
  /\ escapes = "pairs"
  /\ request = << >>
  /\ scan = << >>
  /\ searchQuery = << >>
  /\ selectedFilterTags = << >>
  /\ selectedIds = {}
  /\ isSelectionMode = FALSE
  /\ exported = << >>

NextFilter ==
  \/ \E q \in TextsUpTo(MaxQueryLen) : setSearchQuery(q)
  \/ \E tag \in availableQuickFilters : toggleFilterTag(tag)
  \/ clearFilters
  \/ \E p \in 1..MaxProfiles : selectProfile(p)

SpecFilter == InitFilter /\ [][NextFilter]_vars

\* ------------------------------------------------ the detail view of a record
\* a card of the dashboard: onClick={() => { setSelectedCert(cert); setView('detail'); }}
\* (index.tsx: outside selection mode); the cards are those of the active profile
openDetail(id) ==
  /\ variant # "part_001"
  /\ Rendered("dashboard")
  /\ ~isSelectionMode
  /\ \E k \in 1..Len(certificates) :
       certificates[k].id = id /\ certificates[k].profileId = activeProfileId
  /\ selectedCert' = id
  /\ view' = "detail"
  /\ UNCHANGED << variant, user, profiles, activeProfileId, certificates, pendingCert,
                  error, clock >>
  /\ UNCHANGED << authVars, remoteVars, syncVars >>
  /\ UNCHANGED << storeVars, callVars, dashVars, scan >>

\* the back button of the detail view
DetailBackButton ==
  /\ variant # "part_001"
  /\ Rendered("detail")
  /\ selectedCert # 0
  /\ view' = "dashboard"
  /\ UNCHANGED << variant, user, profiles, activeProfileId, certificates, pendingCert,
                  selectedCert, error, clock >>
  /\ UNCHANGED << authVars, remoteVars, syncVars >>
  /\ UNCHANGED << storeVars, callVars, dashVars, scan >>

\* the Delete button of the detail view, the confirm dialog answered with OK
DeleteButton ==
  /\ variant # "part_001"
  /\ Rendered("detail")
  /\ selectedCert # 0
  /\ certificates' = SelectSeq(certificates, LAMBDA c : c.id # selectedCert)
  /\ view' = "dashboard"
  /\ UNCHANGED << variant, user, profiles, activeProfileId, pendingCert,
                  selectedCert, error, clock >>
  /\ UNCHANGED << authVars, remoteVars, syncVars >>
  /\ UNCHANGED << storeVars, callVars, dashVars, scan >>

\* The sync engine with the detail view.  In part_000 the busy flag of one
\* invocation is lowered by the finally of another that was started from the
\* keyboard, so the cards and the Delete button can be used while a sync is
\* still awaiting Drive.
NextFrame ==
  \/ \E id \in 1..(MaxProfiles + MaxCerts) : openDetail(id)
  \/ DetailBackButton
  \/ DeleteButton
  \/ syncToDrive000
  \/ syncToDrive000Key
  \/ \E i \in 1..MaxSyncRuns, out \in Outcomes : ListResolves(i, out)
  \/ \E i \in 1..MaxSyncRuns, out \in Outcomes : CreateResolves(i, out)
  \/ \E i \in 1..MaxSyncRuns, ok \in BOOLEAN : RenderResolves(i, ok)
  \/ \E i \in 1..MaxSyncRuns, out \in Outcomes : UploadResolves(i, out)
  \/ \E i \in 1..MaxSyncRuns : FinalTimer000(i)
  \/ syncToDrive001
  \/ \E i \in 1..MaxSyncRuns : Timer001(i)
  \/ syncToDriveIndex
  \/ \E i \in 1..MaxSyncRuns : TimerIndex(i)

\* a saved vault; the one of part_000 is signed in to Google and has a record
\* of the active profile and one of another profile
InitFrame ==
  /\ Init
  /\ variant = "part_000" =>
       /\ accessToken
       /\ Len(profiles) = 2
       /\ Len(certificates) = 2
       /\ certificates[1].profileId = 2
       /\ certificates[2].profileId = 1

SpecFrame == InitFrame /\ [][NextFrame]_vars

\* ------------------------------------------------- the Google session alone
\* part_000 with its sign-in button, the callbacks of the token client, the
\* userinfo fetches and the Sign Out button
NextSession ==
  \/ SignInButton
  \/ \E resp \in {"error", "token", "empty"} : TokenCallback(resp)
  \/ \E ok \in BOOLEAN : UserInfoResponse(ok)
  \/ SignOutButton

InitSession == Init /\ variant = "part_000"

SpecSession == InitSession /\ [][NextSession]_vars

\* ------------------------------------------- records and profiles, by id
\* Scanning (as one step: the record of the extraction becomes the pending
\* record), saving, the detail view with its Delete button, and the creation
\* and selection of profiles.  Date.now() has advanced between two
\* creations: each follows a user action and, for a record, an awaited call.
NextIds ==
  \/ \E name \in {"Asha", "CertiVault"} : handleCreateProfile(name)
  \/ \E p \in 1..MaxClock : selectProfile(p)
  \/ \E input \in ScanInputs : clock < MaxClock /\ processCertificate(input[1], input[2])
  \/ VaultButton
  \/ \E n \in {"", "Asha"} : saveCertificate(n)
  \/ SaveButton
  \/ BackButton
  \/ \E id \in 1..MaxClock : openDetail(id)
  \/ DetailBackButton
  \/ DeleteButton

SpecIds == InitVault /\ [][NextIds]_vars

\* --------------------------------------------- index.tsx: the PDF export
\* the "Selection Mode" button of the dashboard
SelectionModeButton ==
  /\ variant = "index"
  /\ Rendered("dashboard")
  /\ ~isSelectionMode
  /\ isSelectionMode' = TRUE
  /\ UNCHANGED << variant, certificates, clock, error, searchQuery, selectedFilterTags,
                  selectedIds, exported >>
  /\ UNCHANGED << uiVars, authVars, remoteVars, syncVars, storeVars, callVars, scan >>

\* a card clicked in selection mode
toggleSelect(id) ==
  /\ variant = "index"
  /\ Rendered("dashboard")
  /\ isSelectionMode
  /\ \E k \in 1..Len(certificates) :
       certificates[k].id = id /\ certificates[k].profileId = activeProfileId
  /\ selectedIds' = IF id \in selectedIds THEN selectedIds \ {id} ELSE selectedIds \cup {id}
  /\ UNCHANGED << variant, certificates, clock, error, searchQuery, selectedFilterTags,
                  isSelectionMode, exported >>
  /\ UNCHANGED << uiVars, authVars, remoteVars, syncVars, storeVars, callVars, scan >>

\* the Cancel button of selection mode
CancelSelection ==
  /\ variant = "index"
  /\ Rendered("dashboard")
  /\ isSelectionMode
  /\ isSelectionMode' = FALSE
  /\ selectedIds' = {}
  /\ UNCHANGED << variant, certificates, clock, error, searchQuery, selectedFilterTags,
                  exported >>
  /\ UNCHANGED << uiVars, authVars, remoteVars, syncVars, storeVars, callVars, scan >>

\* the pages of the PDF handleShareBatchPDF makes of a selection: one per
\* record of the store whose id is selected, in the order of the store
certsToShare(selection) ==
  LET chosen == SelectSeq(certificates, LAMBDA c : c.id \in selection)
  IN [ k \in 1..Len(chosen) |-> chosen[k].id ]

\* handleShareBatchPDF as the render that made it sees the state: it reads
\* the selectedIds of that render and has no await before its last line.
\* queued is the selection an earlier setSelectedIds of the same event has
\* queued (the selection itself when there was none).
handleShareBatchPDF(queued) ==
  IF selectedIds = {}
  THEN /\ selectedIds' = queued
       /\ UNCHANGED << isSelectionMode, exported >>
  ELSE /\ exported' = Append(exported, certsToShare(selectedIds))
       /\ isSelectionMode' = FALSE
       /\ selectedIds' = {}

\* the "Share PDF" button of selection mode
SharePDFButton ==
  /\ variant = "index"
  /\ Rendered("dashboard")
  /\ isSelectionMode
  /\ Len(exported) < MaxExports
  /\ handleShareBatchPDF(selectedIds)
  /\ UNCHANGED << variant, certificates, clock, error, searchQuery, selectedFilterTags >>
  /\ UNCHANGED << uiVars, authVars, remoteVars, syncVars, storeVars, callVars, scan >>

\* the Share button of the detail view:
\* onClick={() => { setSelectedIds(new Set([selectedCert.id])); handleShareBatchPDF(); }}
ShareButton ==
  /\ variant = "index"
  /\ Rendered("detail")
  /\ selectedCert # 0
  /\ Len(exported) < MaxExports
  /\ handleShareBatchPDF({selectedCert})
  /\ UNCHANGED << variant, certificates, clock, error, searchQuery, selectedFilterTags >>
  /\ UNCHANGED << uiVars, authVars, remoteVars, syncVars, storeVars, callVars, scan >>

NextShare ==
  \/ \E id \in 1..(MaxProfiles + MaxCerts) : openDetail(id)
  \/ DetailBackButton
  \/ DeleteButton
  \/ SelectionModeButton
  \/ \E id \in 1..(MaxProfiles + MaxCerts) : toggleSelect(id)
  \/ CancelSelection
  \/ SharePDFButton
  \/ ShareButton

InitShare == Init /\ variant = "index"

SpecShare == InitShare /\ [][NextShare]_vars

\* ----------------------------------------------------------------- claims
Synced(certs, id) == \E k \in 1..Len(certs) : certs[k].id = id /\ certs[k].synced

Uploads(inv) == SelectSeq(inv.calls, LAMBDA c : c.op = "uploadFile")

\* the records an invocation has started to process
Attempted(inv) == { c.cert : c \in Range(inv.calls) } \ {0}

\* where the record being processed stands in the work-set
CurPos(inv) == CHOOSE k \in 1..Len(inv.work) : inv.work[k] = inv.cur

\* this step ends invocation i with a failure of the given kind
FailsNow(i, cause) ==
  /\ syncs[i].pc # "done"
  /\ syncs'[i].pc = "done"
  /\ syncs'[i].result = "failed"
  /\ syncs'[i].cause = cause

\* no other invocation overlaps invocation i
Alone(i) ==
  \A j \in 1..Len(syncs) :
    j # i => (j < i /\ syncs[j].pc = "done" /\ syncs[j].certs = << >>)

C2_AuthAbort ==
  [][ /\ \A i \in 1..Len(syncs) :
           FailsNow(i, "auth") =>
             LET inv == syncs'[i]
             IN /\ certificates' = certificates
                /\ files' = files
                /\ inv.calls = syncs[i].calls
                /\ ~isProcessing'
                /\ Len(inv.calls) = 1 =>
                     /\ inv.marked = << >>
                     /\ Uploads(inv) = << >>
                     /\ \A f \in Range(files') : f.run # i
      /\ \A i \in 1..Len(syncs') :
           syncs'[i].cause = "auth" => syncs'[i].pc = "done" ]_vars

\* C2, witness: two unsynced records of the active profile, and the first
\* findOrCreateFolder call of the invocation came back with an
\* authentication error
C2_Witness ==
  \E i \in 1..Len(syncs) :
    /\ syncs[i].cause = "auth"
    /\ Len(syncs[i].calls) = 1
    /\ Len(WorkSet(variant, syncs[i].certs, syncs[i].apid)) = 2

\* C3 (as claimed): a record is synced only if a file of it was uploaded to
\* the remote store.
C3_SyncedOnlyAfterUpload ==
  \A k \in 1..Len(certificates) :
    certificates[k].synced => \E f \in Range(files) : f.cert = certificates[k].id

\* C4 (as amended): an invocation that follows a successfully completed one
\* for the same profile, with no change of the records in between, makes no
\* uploadFile call and no findOrCreateFolder call for a record: all it
\* issues are the two calls that establish the root and the profile folder.
C4_ResyncRootLookupsOnly ==
  \A i \in 1..Len(syncs) :
    LET inv == syncs[i]
    IN inv.after \in {"ok", "empty"} =>
         /\ Len(inv.calls) <= 2
         /\ \A c \in Range(inv.calls) : c.op = "findOrCreateFolder" /\ c.cert = 0
         /\ \A f \in Range(files) : f.run # i

\* C4, witness: the second of two invocations in a row has ended, the first
\* one having uploaded the records of the profile
C4_Witness ==
  \E i \in 1..Len(syncs) :
    /\ variant = "part_000"
    /\ syncs[i].after = "ok"
    /\ syncs[i].pc = "done"
    /\ Len(syncs[i].calls) = 2
    /\ \E f \in Range(files) : f.run < i

\* C4 (as claimed): an invocation that follows another one for the same
\* profile, with no change of the records in between, makes no
\* findOrCreateFolder and no uploadFile call.
C4_ResyncNoCalls ==
  \A i \in 1..Len(syncs) : syncs[i].after # "none" => syncs[i].calls = << >>

\* C5 (as claimed): no record is uploaded twice, and a record that is
\* already synced is never part of the work-set of an invocation.
C5_NoDuplicateUploads ==
  /\ \A a, b \in 1..Len(files) : files[a].cert = files[b].cert => a = b
  /\ \A i \in 1..Len(syncs) :
       \A k \in 1..Len(syncs[i].work) : ~Synced(syncs[i].certs, syncs[i].work[k])

\* C6 (as claimed): two invocations are never in progress at the same time.
C6_SingleFlight ==
  \A i, j \in 1..Len(syncs) : (Running(i) /\ Running(j)) => i = j

\* C7 (as claimed): the remote store never holds two folders of the same
\* name under the same parent.
C7_NoDuplicateFolders ==
  \A f, g \in folders : (f.name = g.name /\ f.parent = g.parent) => f = g

\* the path of a record as the invocation sees it
PathOf(inv, id) ==
  LET c == CHOOSE c \in Range(inv.certs) : c.id = id
  IN << getAcademicYear(variant, c.date), c.category >>

\* C8 (as claimed): two records of one invocation with the same academic
\* year and category never cause two findOrCreateFolder calls for the same
\* folder.
C8_FolderReuse ==
  \A i \in 1..Len(syncs) :
    LET inv == syncs[i]
    IN \A a, b \in 1..Len(inv.calls) :
         ( /\ a < b
           /\ inv.calls[a].op = "findOrCreateFolder"
           /\ inv.calls[b].op = "findOrCreateFolder"
           /\ inv.calls[a].cert # 0
           /\ inv.calls[b].cert # inv.calls[a].cert
           /\ PathOf(inv, inv.calls[a].cert) = PathOf(inv, inv.calls[b].cert) )
         => ~ ( /\ inv.calls[a].name = inv.calls[b].name
                /\ inv.calls[a].parent = inv.calls[b].parent )

\* the Sync button is activated while the credential or the active profile
\* is missing
SyncRefused ==
  /\ syncToDrive000 \/ syncToDrive001 \/ syncToDriveIndex
  /\ \/ variant = "part_000" /\ ~accessToken
     \/ FindProfile(profiles, activeProfileId) = << >>

C10_SyncedNeverReset ==
  [][ \A k \in 1..Len(certificates), j \in 1..Len(certificates') :
        (certificates'[j].id = certificates[k].id /\ certificates[k].synced)
          => certificates'[j].synced ]_vars

\* C10, witness: a record is synced and an invocation started after that has
\* failed
C10_Witness ==
  /\ \E k \in 1..Len(certificates) : certificates[k].synced
  /\ \E i \in 1..Len(syncs) :
       /\ syncs[i].result = "failed"
       /\ \E k \in 1..Len(syncs[i].certs) : syncs[i].certs[k].synced

\* the records invocation i has started to process: the Drive-backed variant
\* has issued a call for them, the simulated ones have logged their upload
StartedIds(i) ==
  IF variant = "part_000" THEN Attempted(syncs[i])
  ELSE { id \in Range(syncs[i].work) :
           \E l \in Range(syncLogs) : l.message = "Uploading" /\ l.of = ToString(id) }

\* the persisted Record Store shows record id as synced
StoredSynced(id) ==
  /\ localStorage # << >>
  /\ Synced(JSONparse(localStorage[1]).certificates, id)

\* C11 (as claimed): once an invocation has started on a further record,
\* every record it marked synced before is synced in the persisted store.
C11_PersistBeforeNext ==
  \A i \in 1..Len(syncs) :
    (StartedIds(i) \ Range(syncs[i].marked) # {}) =>
      \A k \in 1..Len(syncs[i].marked) : StoredSynced(syncs[i].marked[k])

\* the records of the active profile with synced = false, as the invocation
\* captured them
Unsynced(inv) == SelectSeq(inv.certs, LAMBDA c : c.profileId = inv.apid /\ ~c.synced)

\* the "already in sync" entries the user is shown
AlreadyInSync ==
  IF variant = "part_000"
  THEN IF processStatus = "Vault already in sync!" THEN 1 ELSE 0
  ELSE Len(SelectSeq(syncLogs, LAMBDA l : l.message = "Vault is already up to date."))

\* C12 (as claimed): the latest invocation, once it has ended without a
\* failure, has worked on exactly the unsynced records of the active
\* profile; if there were none it has emitted one "already in sync" entry,
\* has ended successfully and has made no call but the two that establish
\* the root and the profile folder.
C12_WorkSetSelection ==
  syncs # << >> =>
    LET inv == syncs[Len(syncs)]
    IN (inv.pc = "done" /\ inv.result # "failed") =>
         /\ inv.work = Ids(Unsynced(inv))
         /\ Unsynced(inv) = << >> =>
              /\ inv.result = "empty"
              /\ AlreadyInSync = 1
              /\ Len(inv.calls) <= 2
              /\ \A c \in Range(inv.calls) : c.op = "findOrCreateFolder" /\ c.cert = 0

\* this step ends invocation i with a failure
Fails(i) ==
  /\ syncs[i].pc # "done"
  /\ syncs'[i].pc = "done"
  /\ syncs'[i].result = "failed"

\* the messages a failed call or render surfaces
SyncFailedMessages ==
  { "Sync failed: " \o m : m \in {"Invalid Credentials", "Drive API failed",
                                   "Upload failed", "render"} }

RECURSIVE FolderPath(_)
\* the names on the way from My Drive down to folder id
FolderPath(id) ==
  IF id = 0 THEN << >>
  ELSE LET f == CHOOSE f \in folders : f.id = id
       IN Append(FolderPath(f.parent), f.name)

\* the canonical path of the record with the given id
CanonicalPath(id) ==
  LET c == CHOOSE c \in Range(certificates) : c.id = id
      owner == FindProfile(profiles, c.profileId)[1]
  IN << "CertiVault", owner.name, getAcademicYear(variant, c.date), c.category >>

\* the last n names of a path
Suffix(path, n) == SubSeq(path, Len(path) - n + 1, Len(path))

\* C14: every uploaded file lies in a folder named after the category of its
\* record, inside a folder named after its academic period, inside a folder
\* named after the profile that owns it, inside a folder named CertiVault.
C14_RemotePlacement ==
  \A k \in 1..Len(files) :
    LET path == FolderPath(files[k].parent)
    IN /\ Len(path) >= 4
       /\ Suffix(path, 4) = CanonicalPath(files[k].cert)

\* C14, witness: two records of one profile were uploaded into the folders
\* of two academic periods
C14_Witness ==
  /\ Len(files) = 2
  /\ files[1].parent # files[2].parent
  /\ files[1].cert # files[2].cert

\* C15 (as claimed): getAcademicYear returns for every string, and what it
\* returns for the empty string and for a string that is no date is exactly
\* "Unknown Year".
C15_ClassifierTotality ==
  returned # << >> /\ dateStr.kind \in {"empty", "text"}
    => returned[1] = "Unknown Year"

\* C16 (as claimed): for a date string with calendar year Y and month M
\* (zero-based M - 1 here, the string counting months from 1), the label is
\* "Y-(Y+1)" when the zero-based month is at least the threshold and
\* "(Y-1)-Y" otherwise.
C16_ClassifierBoundary ==
  returned # << >> /\ dateStr.kind \in {"date", "datetime"}
    => returned[1] = IF dateStr.month - 1 >= threshold(variant)
                     THEN label(dateStr.year) ELSE label(dateStr.year - 1)

\* C17 (as claimed): whatever the folder name, the filter findOrCreateFolder
\* sends selects only folders that carry exactly that name and, when a
\* parentId is given, lie in that parent; and the folder it creates on a
\* miss carries that name and lies in that parent.
C17_QueryEscaping ==
  /\ request # << >> /\ request[1].kind = "list"
       /\ Parse(request[1].q, escapes) # << >>
     => \A f \in Listed(request[1].q, escapes, folders) :
          /\ f.name = folderName
          /\ parentFolder # 0 => f.parent = parentFolder
  /\ \A f \in folders :
       f.id = 5 => f.name = folderName /\ f.parent = parentFolder

\* a record for manual entry: every field at the value the code gives it
\* when the service delivered none
ManualEntry(c) ==
  /\ c.title \in {"Record Scan", "Certificate Scan", "New Certificate",
                  "Certificate of Participation"}
  /\ c.date \in {Today, NoDate}
  /\ c.category \in {"Other", "Competitions"}
  /\ ~c.synced

\* the pending record can be saved from the editor
CanSave ==
  /\ view = "editor"
  /\ pendingCert # << >>
  /\ ~Overlay
  /\ variant = "part_000" => pendingCert[1].title # ""
  /\ variant = "part_001" => pendingCert[1].profileId # 0 \/ activeProfileId # 0

\* the editor is shown and the flag is down, or the timers that do so are set
EditorReached ==
  IF scan = << >> THEN view = "editor" /\ ~isProcessing /\ CanSave
  ELSE /\ scan[1].stage = "timers"
       /\ view = "editor" \/ scan[1].toEditor

C19_RoundTrip ==
  [][ Startup /\ localStorage = << JSONstringify(Blob) >>
        => /\ profiles' = profiles
           /\ certificates' = certificates
           /\ activeProfileId' = activeProfileId
           /\ customCategories' = customCategories ]_vars

\* C19, witness: part_001 has just been opened again: the item holds what
\* the persist effect of the first render wrote, the state holds the saved
\* record and the custom category
C19_Witness ==
  /\ variant = "part_001"
  /\ certificates # << >>
  /\ customCategories # << >>
  /\ view = "dashboard"
  /\ localStorage = << JSONstringify([profiles |-> << >>, certificates |-> << >>,
                                      activeProfileId |-> 0, customCategories |-> << >>]) >>

\* C20 (as claimed): every stored certificate is owned by an existing
\* profile.
C20_RecordOwnership ==
  \A i \in 1..Len(certificates) :
    \E j \in 1..Len(profiles) : certificates[i].profileId = profiles[j].id

\* the test the quick filters put a record to: some selected filter is its
\* academic year, its category or one of its tags
SomeTagFits(c) ==
  \E t \in Range(selectedFilterTags) :
    t = getAcademicYear(variant, c.date) \/ t = c.category \/ t \in Range(c.tags)

TextFits(c, field) == includes(toLowerCase(Spell(field)), toLowerCase(searchQuery))

Shown(c) == c \in Range(filteredCerts)

(* C21: with quick filters selected, a shown record belongs to the active  *)
(* profile and at least one selected filter equals its academic year,      *)
(* equals its category or is one of its tags; and while the search box is  *)
(* blank every such record of the active profile is shown, so one year and *)
(* one category selected show the records that match either.               *)
C21_TagFilterSemantics ==
  selectedFilterTags # << >> =>
    \A c \in Range(certificates) :
      /\ Shown(c) => c.profileId = activeProfileId /\ SomeTagFits(c)
      /\ (trim(searchQuery) = << >> /\ c.profileId = activeProfileId /\ SomeTagFits(c))
           => Shown(c)

\* a year and a category are selected and a record that has the year but not
\* the category is shown next to one that has the category but not the year
C21_Witness ==
  /\ Len(selectedFilterTags) = 2
  /\ \E c, d \in Range(certificates) :
       /\ Shown(c) /\ Shown(d) /\ c # d
       /\ getAcademicYear(variant, c.date) \in Range(selectedFilterTags)
       /\ c.category \notin Range(selectedFilterTags)
       /\ d.category \in Range(selectedFilterTags)
       /\ getAcademicYear(variant, d.date) \notin Range(selectedFilterTags)

(* C22: with a non-blank search text and no quick filter, a record is      *)
(* shown exactly if it belongs to the active profile and the text is a     *)
(* case-insensitive substring of its title, issuer, category, academic     *)
(* year label or one of its tags.                                          *)
C22_TextQuerySemantics ==
  (trim(searchQuery) # << >> /\ selectedFilterTags = << >>) =>
    \A c \in Range(certificates) :
      Shown(c) <=>
        /\ c.profileId = activeProfileId
        /\ \/ TextFits(c, c.title)
           \/ TextFits(c, c.issuer)
           \/ TextFits(c, c.category)
           \/ TextFits(c, getAcademicYear(variant, c.date))
           \/ \E k \in 1..Len(c.tags) : TextFits(c, c.tags[k])

\* the log entries that speak of one record: its upload and, in part_001,
\* the success of it
ItemEntries == SelectSeq(syncLogs, LAMBDA e : e.message \in {"Uploading", "Success"})

\* the records the log speaks of, in the order of their first entry
LoggedRecords == Uniq([ k \in 1..Len(ItemEntries) |-> ItemEntries[k].of ])

\* the entries of one record are not interrupted by those of another
Grouped(s) ==
  \A a, b \in 1..Len(s) :
    (a < b /\ s[a].of = s[b].of) => \A k \in a..b : s[k].of = s[a].of

StartsWith(t, s) == Len(s) <= Len(t) /\ SubSeq(t, 1, Len(s)) = s

\* a step that starts an invocation, which leaves its first entry in the log
StartsInvocation == Len(syncs') = Len(syncs) + 1 /\ Len(syncLogs') = 1

LogInOrder ==
  LET inv == syncs[Len(syncs)]
      processed == [ k \in 1..Len(inv.marked) |-> ToString(inv.marked[k]) ]
  IN /\ Grouped(ItemEntries)
     /\ StartsWith(LoggedRecords, processed)
     /\ Len(LoggedRecords) <= Len(processed) + 1
     /\ inv.pc \in {"done_wait", "empty_wait", "done"}
          => syncLogs # << >> /\ syncLogs[Len(syncLogs)].status = "success"

FrameKept(i) ==
  /\ Len(certificates') = Len(certificates)
  /\ \A k \in 1..Len(certificates) :
       \/ certificates'[k] = certificates[k]
       \/ /\ certificates'[k] = [certificates[k] EXCEPT !.synced = TRUE]
          /\ certificates[k].id \in Range(syncs[i].work)
          /\ certificates[k].profileId = syncs[i].apid

(* C24: a step of a sync invocation adds no record, removes none and       *)
(* changes no field of any record except that it sets the synced flag of   *)
(* records of its work-set, which belong to the profile it was started     *)
(* for; a record deleted while the invocation was in flight is not put     *)
(* back when the invocation marks it.                                      *)
C24_SyncFrame ==
  [][ \A i \in 1..Len(syncs) :
        (i <= Len(syncs') /\ syncs'[i] # syncs[i]) => FrameKept(i) ]_vars

\* an invocation has run to its end and has marked a record that was deleted
\* while it was in flight; the record is not in the store, which still holds
\* a record of another profile
C24_Witness ==
  \E i \in 1..Len(syncs) :
    \E id \in Range(syncs[i].marked) :
      /\ syncs[i].result = "ok"
      /\ \A k \in 1..Len(certificates) : certificates[k].id # id
      /\ \E k \in 1..Len(certificates) : certificates[k].profileId # syncs[i].apid

\* the saved vault that the item under STORAGE_KEY holds is not empty
SavedVault(item) == item # << >> /\ JSONparse(item[1]).profiles # << >>

(* C25: when the page is opened on a saved vault that is not empty, the    *)
(* startup sequence (first render, load effect, persist effect) leaves the *)
(* saved item holding the profiles and certificates it held before.        *)
C25_StartupKeepsBlob ==
  [][ (Startup /\ SavedVault(localStorage)) =>
        /\ localStorage' # << >>
        /\ JSONparse(localStorage'[1]).profiles = JSONparse(localStorage[1]).profiles
        /\ JSONparse(localStorage'[1]).certificates
             = JSONparse(localStorage[1]).certificates ]_vars

\* the in-progress flag of the sync: part_000 shares isProcessing with the
\* scanner, part_001 and index.tsx have isSyncing
Busy == IF variant = "part_000" THEN isProcessing ELSE isSyncing

InFlight(i) == i <= Len(syncs) /\ Running(i)

(* C26: when every remote call settles and every timer fires, an           *)
(* invocation that has raised the in-progress flag comes to its end with   *)
(* the flag lowered, whichever way it ends, and the flag is never up for   *)
(* good.                                                                   *)
C26_BusyFlagReleased ==
  /\ \A i \in 1..MaxSyncRuns : InFlight(i) ~> (~InFlight(i) /\ ~Busy)
  /\ Busy ~> ~Busy

\* a failed invocation and a later successful one have both ended and the
\* flag is down
C26_Witness ==
  /\ Len(syncs) = 2
  /\ syncs[1].result = "failed"
  /\ syncs[2].result = "ok"
  /\ ~Busy

(* C27: in part_000 a signed-in googleUser always comes with an access     *)
(* token, whatever the order of token callbacks, userinfo responses and    *)
(* sign-out.                                                               *)
C27_SessionConsistency == googleUser => accessToken

Distinct(s) == \A a, b \in 1..Len(s) : s[a].id = s[b].id => a = b

(* C28: the certificates of the store have pairwise distinct ids and so    *)
(* have the profiles, after any sequence of scans, saves, deletions and    *)
(* profile creations; pressing Delete removes exactly the record shown.    *)
C28_IdUniqueness ==
  /\ [](Distinct(certificates) /\ Distinct(profiles))
  /\ [][ (DeleteButton /\ \E k \in 1..Len(certificates) : certificates[k].id = selectedCert)
           => Len(certificates') = Len(certificates) - 1 ]_vars

\* two records are in the store, one of them saved after an earlier record
\* was deleted
C28_Witness ==
  /\ Len(certificates) = 2
  /\ profiles # << >>
  /\ clock = MaxClock
  /\ selectedCert # 0
  /\ \A k \in 1..Len(certificates) : certificates[k].id # selectedCert

(* C29: pressing Share on the detail view of a record saves one PDF whose  *)
(* only page is that record, on the first press and whatever was selected  *)
(* before.                                                                 *)
C29_ShareFromDetail ==
  [][ ShareButton =>
        /\ Len(exported') = Len(exported) + 1
        /\ exported'[Len(exported')] = << selectedCert >> ]_vars

\* the ids of the profiles in the list
ProfileIds == { p.id : p \in Range(profiles) }

\* activeProfileId names no profile only while there is none
ActiveProfileExists ==
  IF profiles = << >> THEN activeProfileId = 0 ELSE activeProfileId \in ProfileIds

\* a step that adds one profile at the end of the list
AddsProfile ==
  /\ Len(profiles') = Len(profiles) + 1
  /\ SubSeq(profiles', 1, Len(profiles)) = profiles

(* C30: in every state activeProfileId is empty with no profile in the    *)
(* list, or is the id of a profile of the list; a step that adds a profile *)
(* makes the added profile the active one.                                 *)
C30_ActiveProfile ==
  /\ []ActiveProfileExists
  /\ [][ AddsProfile => activeProfileId' = profiles'[Len(profiles')].id ]_vars

\* a profile created after the first ids were handed out, and the older
\* profile selected again
C30_Witness ==
  /\ Len(profiles) = 2
  /\ profiles[2].id > 2
  /\ activeProfileId = profiles[1].id

====
